---- MODULE Spec2Model ----
(***************************************************************************)
(* A model of db-concat (src/db-concat.go): the instruction walker         *)
(* (processInstructions / dispatchCommand and the directive handlers),     *)
(* the parameter store with its precedence rules, the conditional stack,   *)
(* the file-local prefix guard and main's deferred substitution pass.      *)
(*                                                                         *)
(* A Go string is a sequence of characters.  The characters of the model   *)
(* are short TLA+ strings: a keyword such as "emit" or a name such as "K"  *)
(* is one character of the model's alphabet, and " ", "=", ":", "$", "{",  *)
(* "}" are the separators the code looks for.  Every string function of    *)
(* the code (HasPrefix, TrimPrefix, SplitN, ReplaceAll, TrimSpace) is      *)
(* computed on these sequences as the Go function computes it on bytes.    *)
(*                                                                         *)
(* An instruction file is read line by line; the model draws each line     *)
(* when it is read, so that every file over the line pool of a             *)
(* specification is walked.  processInstructions' locals live in a call    *)
(* stack of frames, one per file being walked.                             *)
(***************************************************************************)
EXTENDS Integers, Sequences, FiniteSets, TLC

VARIABLES
    fileParams,     \* the key=value lines of the --param-file files, in order
    paramsSlice,    \* the --param arguments, in order
    cliParamsSet,   \* names locked by --param
    parameters,     \* the parameter store: name -> value
    dslOutputFile,  \* the path recorded by `output` ("" is <<>>)
    itemsToConcat,  \* the fragment list
    stack,          \* call stack of processInstructions frames, top last
    pc,             \* "walk", "subst", "ready", "render", "done", "error"
    err,            \* the error that aborted the run, "" when none
    subIdx,         \* main's loop index over itemsToConcat (line 81)
    outputFlag,     \* the --output argument ("" is <<>>)
    finalOutputFile,\* the path main chose (line 88-91)
    created,        \* os.Create made (and truncated) the output file
    written,        \* what runConcat wrote to outputWriter, in order
    renderIdx,      \* runConcat's position in itemsToConcat
    announced,      \* the success message was printed on standard output
    errArg,         \* the text the error message names, "" when none
    budget,         \* lines that may still be read (bounds the model)
    last,           \* history: the line just read and how it was routed
    defs,           \* history: per name, what `set` and `param` stored for it
    outputs,        \* history: the arguments of the executed `output` directives
    produced,       \* history: the executed fragment-producing directives, in order
    calls           \* history: the number of processInstructions calls made

vars == <<fileParams, paramsSlice, cliParamsSet, parameters, dslOutputFile,
          itemsToConcat, stack, pc, err, subIdx, budget, last, defs, outputs,
          outputFlag, finalOutputFile, created, written, renderIdx, announced,
          errArg, produced, calls>>

\* What the walk and the substitution pass never touch.
renderVars == <<outputFlag, finalOutputFile, created, written, renderIdx, announced>>

----------------------------------------------------------------------------
(* Bounds of the model: the number of lines a run reads, over all files,   *)
(* under each specification, and the depth of the include recursion.       *)

MaxLinesParam == 4
MaxLinesCond == 7
MaxLinesPrefix == 5
MaxLinesOutput == 5
MaxDepth == 3

----------------------------------------------------------------------------
(* Strings. *)

HasPrefix(s, p) == Len(s) >= Len(p) /\ SubSeq(s, 1, Len(p)) = p

TrimPrefix(s, p) == IF HasPrefix(s, p) THEN SubSeq(s, Len(p) + 1, Len(s)) ELSE s

\* strings.Index: the first position where sep occurs in s, 0 when none.
Least(hits) == IF hits = {} THEN 0 ELSE CHOOSE i \in hits : \A j \in hits : i <= j

Index(s, sep) ==
    Least({i \in 1..(Len(s) - Len(sep) + 1) : SubSeq(s, i, i + Len(sep) - 1) = sep})

Contains(s, sep) == Index(s, sep) # 0

\* strings.SplitN(s, sep, 2) for a non-empty sep: one part when sep does not
\* occur, else the text before its first occurrence and the text after it.
SplitAt(s, sep, i) ==
    IF i = 0 THEN <<s>>
    ELSE <<SubSeq(s, 1, i - 1), SubSeq(s, i + Len(sep), Len(s))>>

SplitN2(s, sep) == SplitAt(s, sep, Index(s, sep))

\* A variant of ReplaceAll that replaces the first occurrence only.
ReplaceAll_First(s, old, new) ==
    IF Index(s, old) = 0 THEN s
    ELSE SubSeq(s, 1, Index(s, old) - 1) \o new
         \o SubSeq(s, Index(s, old) + Len(old), Len(s))

\* strings.ReplaceAll for a non-empty old: non-overlapping, left to right.
RECURSIVE ReplaceAll(_, _, _)
ReplaceAll(s, old, new) ==
    IF Len(s) < Len(old) THEN s
    ELSE IF SubSeq(s, 1, Len(old)) = old
         THEN new \o ReplaceAll(SubSeq(s, Len(old) + 1, Len(s)), old, new)
         ELSE <<Head(s)>> \o ReplaceAll(Tail(s), old, new)

WhiteSpace == {" ", "\t", "\r"}

RECURSIVE TrimLeft(_)
TrimLeft(s) == IF s # <<>> /\ Head(s) \in WhiteSpace THEN TrimLeft(Tail(s)) ELSE s

RECURSIVE TrimRight(_)
TrimRight(s) ==
    IF s # <<>> /\ s[Len(s)] \in WhiteSpace THEN TrimRight(SubSeq(s, 1, Len(s) - 1)) ELSE s

TrimSpace(s) == TrimRight(TrimLeft(s))

\* The orders in which a `range` over a map with key set S may visit it.
Orders(S) ==
    {f \in [1..Cardinality(S) -> S] : \A i, j \in 1..Cardinality(S) : i # j => f[i] # f[j]}

----------------------------------------------------------------------------
(* Paths (path/filepath), for names without "." and ".." elements. *)

Cwd == <<"/", "cwd">>

IsAbs(p) == p # <<>> /\ Head(p) = "/"

Greatest(hits) == IF hits = {} THEN 0 ELSE CHOOSE i \in hits : \A j \in hits : j <= i

LastSlash(p) == Greatest({i \in 1..Len(p) : p[i] = "/"})

DirUpTo(p, i) ==
    IF i = 0 THEN <<".">>
    ELSE IF i = 1 THEN <<"/">>
    ELSE SubSeq(p, 1, i - 1)

FilepathDir(p) == DirUpTo(p, LastSlash(p))

FilepathJoin(a, b) ==
    IF a = <<>> \/ a = <<".">> THEN b
    ELSE IF b = <<>> THEN a
    ELSE IF a = <<"/">> THEN a \o b
    ELSE a \o <<"/">> \o b

FilepathAbs(p) == IF IsAbs(p) THEN p ELSE FilepathJoin(Cwd, p)

----------------------------------------------------------------------------
(* The parameter store. *)

EmptyMap == [k \in {} |-> <<>>]

MapPut(m, k, v) == [x \in DOMAIN m \cup {k} |-> IF x = k THEN v ELSE m[x]]

Placeholder(key) == <<"$", "{">> \o key \o <<"}">>

\* substituteParams: one ReplaceAll per key, in the order the range over the
\* map visits the keys (order is one of Orders(DOMAIN parameters)).
RECURSIVE SubstituteFrom(_, _, _, _)
SubstituteFrom(result, parameters_, order, i) ==
    IF i > Len(order) THEN result
    ELSE SubstituteFrom(ReplaceAll(result, Placeholder(order[i]), parameters_[order[i]]),
                        parameters_, order, i + 1)

substituteParams(s, parameters_, order) == SubstituteFrom(s, parameters_, order, 1)

\* main, lines 63-69 and loadParamsFromFile, lines 127-129: each key=value
\* entry is stored in turn; an entry without "=" is skipped by main.
LoadEntry(m, parts) == IF Len(parts) = 2 THEN MapPut(m, parts[1], parts[2]) ELSE m

RECURSIVE LoadEntries(_, _, _)
LoadEntries(entries, m, i) ==
    IF i > Len(entries) THEN m
    ELSE LoadEntries(entries, LoadEntry(m, SplitN2(entries[i], <<"=">>)), i + 1)

LockedNames(entries) ==
    {SplitN2(entries[i], <<"=">>)[1] : i \in {j \in 1..Len(entries) : Len(SplitN2(entries[j], <<"=">>)) = 2}}

\* A variant of defineParam that stores without looking for an earlier value.
defineParam_Overwrites(paramParts, parameters_, order) ==
    IF Len(paramParts) = 2
    THEN [parameters |-> MapPut(parameters_, paramParts[1],
                                substituteParams(paramParts[2], parameters_, order)),
          err |-> ""]
    ELSE [parameters |-> parameters_, err |-> "invalid param command format"]

\* handleParamCommand, lines 326-339, given paramParts (line 325).
defineParam(paramParts, parameters_, order) ==
    IF Len(paramParts) = 2
    THEN [parameters |-> IF paramParts[1] \notin DOMAIN parameters_
                         THEN MapPut(parameters_, paramParts[1],
                                     substituteParams(paramParts[2], parameters_, order))
                         ELSE parameters_,
          err |-> ""]
    ELSE [parameters |-> parameters_, err |-> "invalid param command format"]

handleParamCommand(args, parameters_, order) ==
    defineParam(SplitN2(args, <<"=">>), parameters_, order)

\* A variant of assignParam that does not look at the locked names.
assignParam_NoLock(setParts, parameters_, cliParamsSet_, order) ==
    IF Len(setParts) = 2
    THEN [parameters |-> MapPut(parameters_, setParts[1],
                                substituteParams(setParts[2], parameters_, order)),
          err |-> ""]
    ELSE [parameters |-> parameters_, err |-> "invalid set command format"]

\* A variant of assignParam that stores the value as written, placeholders
\* included.
assignParam_Lazy(setParts, parameters_, cliParamsSet_, order) ==
    IF Len(setParts) = 2
    THEN [parameters |-> IF setParts[1] \notin cliParamsSet_
                         THEN MapPut(parameters_, setParts[1], setParts[2])
                         ELSE parameters_,
          err |-> ""]
    ELSE [parameters |-> parameters_, err |-> "invalid set command format"]

\* A variant of assignParam that gives the name the empty value before it
\* reports a remainder without "=".
assignParam_StoresFirst(setParts, parameters_, cliParamsSet_, order) ==
    IF Len(setParts) = 2
    THEN [parameters |-> IF setParts[1] \notin cliParamsSet_
                         THEN MapPut(parameters_, setParts[1],
                                     substituteParams(setParts[2], parameters_, order))
                         ELSE parameters_,
          err |-> ""]
    ELSE [parameters |-> MapPut(parameters_, setParts[1], <<>>),
          err |-> "invalid set command format"]

\* handleSetCommand, lines 345-359, given setParts (line 344).
assignParam(setParts, parameters_, cliParamsSet_, order) ==
    IF Len(setParts) = 2
    THEN [parameters |-> IF setParts[1] \notin cliParamsSet_
                         THEN MapPut(parameters_, setParts[1],
                                     substituteParams(setParts[2], parameters_, order))
                         ELSE parameters_,
          err |-> ""]
    ELSE [parameters |-> parameters_, err |-> "invalid set command format"]

handleSetCommand(args, parameters_, cliParamsSet_, order) ==
    assignParam(SplitN2(args, <<"=">>), parameters_, cliParamsSet_, order)

----------------------------------------------------------------------------
(* Conditions. *)

Digit == [c \in {"0", "1", "2", "3", "4", "5", "6", "7", "8", "9"} |->
            CASE c = "0" -> 0 [] c = "1" -> 1 [] c = "2" -> 2 [] c = "3" -> 3
              [] c = "4" -> 4 [] c = "5" -> 5 [] c = "6" -> 6 [] c = "7" -> 7
              [] c = "8" -> 8 [] c = "9" -> 9]

\* strconv.ParseFloat(s, 64), line 216: the bits of the mantissa of a float64
\* and the power of two no float64 reaches.
MantissaBits == 53

MaxExponent == 1024

DigitsOf(s) == [i \in 1..Len(s) |-> Digit[s[i]]]

RECURSIVE StripZeros(_)
StripZeros(ds) == IF ds # <<>> /\ Head(ds) = 0 THEN StripZeros(Tail(ds)) ELSE ds

\* The decimal digits of half the number ds stands for, given the carry of
\* the digits to the left.
RECURSIVE Halved(_, _)
Halved(ds, carry) ==
    IF ds = <<>> THEN <<>>
    ELSE <<(10 * carry + Head(ds)) \div 2>> \o Halved(Tail(ds), (10 * carry + Head(ds)) % 2)

\* The binary digits, most significant first, of the number the decimal
\* digits ds (without leading zeros) stand for; zero has none.
RECURSIVE BitsOf(_)
BitsOf(ds) ==
    IF ds = <<>> THEN <<>>
    ELSE BitsOf(StripZeros(Halved(ds, 0))) \o <<ds[Len(ds)] % 2>>

Zeros(n) == [i \in 1..n |-> 0]

\* The binary digits of the number after bits.
RECURSIVE Incremented(_)
Incremented(bits) ==
    IF bits = <<>> THEN <<1>>
    ELSE IF bits[Len(bits)] = 0 THEN SubSeq(bits, 1, Len(bits) - 1) \o <<1>>
    ELSE Incremented(SubSeq(bits, 1, Len(bits) - 1)) \o <<0>>

\* Round to nearest, ties to even, of a number of more than MantissaBits bits.
RoundsUp(bits) ==
    /\ bits[MantissaBits + 1] = 1
    /\ \/ bits[MantissaBits] = 1
       \/ \E i \in (MantissaBits + 2)..Len(bits) : bits[i] = 1

\* The float64 nearest to the integer of these binary digits, as the binary
\* digits of its value.
Rounded(bits) ==
    IF Len(bits) <= MantissaBits THEN bits
    ELSE (IF RoundsUp(bits) THEN Incremented(SubSeq(bits, 1, MantissaBits))
          ELSE SubSeq(bits, 1, MantissaBits))
         \o Zeros(Len(bits) - MantissaBits)

\* The float64 of a sign and the binary digits of a magnitude; a magnitude
\* of 2^MaxExponent or more is the error ErrRange.
Float(neg, bits) == [ok |-> Len(bits) <= MaxExponent, num |-> [neg |-> neg, bits |-> bits]]

ParseDigits(neg, body) ==
    IF body # <<>> /\ \A i \in 1..Len(body) : body[i] \in DOMAIN Digit
    THEN Float(neg, Rounded(BitsOf(StripZeros(DigitsOf(body)))))
    ELSE [ok |-> FALSE, num |-> [neg |-> FALSE, bits |-> <<>>]]

\* strconv.ParseFloat on the strings of the model, whose alphabet has the
\* decimal digits, the two signs and letters, but no ".", no "_" and none of
\* the letters of an exponent, of a hexadecimal number, of "inf" or of
\* "nan": an optional sign and a non-empty run of decimal digits is a
\* number, every other string of the alphabet is a syntax error.
ParseFloat(s) ==
    IF s # <<>> /\ Head(s) \in {"+", "-"}
    THEN ParseDigits(Head(s) = "-", Tail(s))
    ELSE ParseDigits(FALSE, s)

\* The order of two magnitudes given by their binary digits.
MagLess(x, y) ==
    \/ Len(x) < Len(y)
    \/ /\ Len(x) = Len(y)
       /\ \E i \in 1..Len(x) : x[i] < y[i] /\ \A j \in 1..(i - 1) : x[j] = y[j]

Signum(a) == IF a.bits = <<>> THEN 0 ELSE IF a.neg THEN 0 - 1 ELSE 1

\* The order of float64 (zero equals minus zero).
FloatLess(a, b) ==
    \/ Signum(a) < Signum(b)
    \/ Signum(a) = 1 /\ Signum(b) = 1 /\ MagLess(a.bits, b.bits)
    \/ Signum(a) = 0 - 1 /\ Signum(b) = 0 - 1 /\ MagLess(b.bits, a.bits)

operators == << <<">", "=">>, <<"<", "=">>, <<"=">>, <<">">>, <<"<">> >>

\* The first operator of the list that occurs in the condition, 0 when none
\* (the loop of lines 190-200).
FirstOperator(condition) ==
    Least({i \in 1..Len(operators) : Contains(condition, operators[i])})

\* Lines 223-232.
compare(operator, actualNum, expectedNum) ==
    CASE operator = <<">">> -> FloatLess(expectedNum, actualNum)
      [] operator = <<">", "=">> -> ~FloatLess(actualNum, expectedNum)
      [] operator = <<"<">> -> FloatLess(actualNum, expectedNum)
      [] operator = <<"<", "=">> -> ~FloatLess(expectedNum, actualNum)

\* A variant of compareParsed that reads an operand that is no number as
\* zero.
compareParsed_ZeroDefault(operator, actual, expected) ==
    compare(operator, actual.num, expected.num)

\* Lines 216-221.
compareParsed(operator, actual, expected) ==
    IF ~actual.ok \/ ~expected.ok THEN FALSE
    ELSE compare(operator, actual.num, expected.num)

\* Lines 206-232, given the operator, key and expectedValue found.
evaluateParts(operator, key, expectedValue, parameters_) ==
    IF key \notin DOMAIN parameters_ THEN [val |-> FALSE, err |-> ""]
    ELSE IF operator = <<"=">>
    THEN [val |-> parameters_[key] = expectedValue, err |-> ""]
    ELSE [val |-> compareParsed(operator, ParseFloat(parameters_[key]),
                                ParseFloat(expectedValue)),
          err |-> ""]

evaluateSplit(operator, parts, parameters_) ==
    evaluateParts(operator, parts[1], parts[2], parameters_)

evaluateWith(o, condition, parameters_) ==
    IF o = 0 THEN [val |-> FALSE, err |-> "invalid condition format"]
    ELSE evaluateSplit(operators[o], SplitN2(condition, operators[o]), parameters_)

evaluateCondition(condition, parameters_) ==
    evaluateWith(FirstOperator(condition), condition, parameters_)

----------------------------------------------------------------------------
(* The conditional stack (ifStack) and handleConditionalCommand. *)

push(s, val) == Append(s, val)

peek(s) == s[Len(s)]

popped(s) == SubSeq(s, 1, Len(s) - 1)

\* Lines 245-250, given the result of evaluateCondition (line 244).
pushCondition(c, ifStk, skip) ==
    IF c.err # "" THEN [ifStk |-> ifStk, skip |-> skip, err |-> c.err]
    ELSE [ifStk |-> push(ifStk, c.val), skip |-> ~c.val, err |-> ""]

\* A variant of handleIf that evaluates the condition also while suppressed.
handleIf_Evaluates(args, parameters_, ifStk, skip) ==
    pushCondition(evaluateCondition(args, parameters_), ifStk, skip)

\* case "if", lines 240-250.
handleIf(args, parameters_, ifStk, skip) ==
    IF skip THEN [ifStk |-> push(ifStk, FALSE), skip |-> skip, err |-> ""]
    ELSE pushCondition(evaluateCondition(args, parameters_), ifStk, skip)

\* A variant of elseAfterPop that does not push the negated state back.
elseAfterPop_NoPush(prevIfState, rest) ==
    [ifStk |-> rest,
     skip |-> IF prevIfState THEN TRUE
              ELSE IF Len(rest) > 0 THEN ~peek(rest) ELSE FALSE,
     err |-> ""]

\* Lines 262-277, given the popped prevIfState and the rest of the stack.
elseAfterPop(prevIfState, rest) ==
    [ifStk |-> push(rest, ~prevIfState),
     skip |-> IF prevIfState THEN TRUE
              ELSE IF Len(rest) > 0 THEN ~peek(rest) ELSE FALSE,
     err |-> ""]

\* A variant of handleElse that ignores an `else` met with an empty stack.
handleElse_Lenient(ifStk, skip) ==
    IF Len(ifStk) = 0
    THEN [ifStk |-> ifStk, skip |-> skip, err |-> ""]
    ELSE elseAfterPop(peek(ifStk), popped(ifStk))

\* case "else", lines 252-277.
handleElse(ifStk, skip) ==
    IF Len(ifStk) = 0
    THEN [ifStk |-> ifStk, skip |-> skip, err |-> "else without a preceding if"]
    ELSE elseAfterPop(peek(ifStk), popped(ifStk))

\* A variant of endifAfterPop that always ends the suppression.
endifAfterPop_ClearsSkip(rest) == [ifStk |-> rest, skip |-> FALSE, err |-> ""]

\* Lines 286-295, given the stack after the pop.
endifAfterPop(rest) ==
    [ifStk |-> rest,
     skip |-> IF Len(rest) > 0 THEN ~peek(rest) ELSE FALSE,
     err |-> ""]

\* case "endif", lines 279-295.
handleEndif(ifStk, skip) ==
    IF Len(ifStk) = 0
    THEN [ifStk |-> ifStk, skip |-> skip, err |-> "endif without a preceding if"]
    ELSE endifAfterPop(popped(ifStk))

handleConditionalCommand(command, args, parameters_, ifStk, skip) ==
    CASE command = <<"if">> -> handleIf(args, parameters_, ifStk, skip)
      [] command = <<"else">> -> handleElse(ifStk, skip)
      [] command = <<"endif">> -> handleEndif(ifStk, skip)

----------------------------------------------------------------------------
(* Fragments and the directive handlers that append them. *)

ConcatItem(isFile, value, baseDir) ==
    [IsFile |-> isFile, Value |-> value, BaseDir |-> baseDir]

\* A variant of handleOutputCommand that keeps a path recorded earlier.
handleOutputCommand_FirstWins(args, outputFile) ==
    IF outputFile = <<>> THEN args ELSE outputFile

handleOutputCommand(args, outputFile) == args

\* A variant of handleConcatCommand that puts the fragment first.
handleConcatCommand_Prepends(args, items, baseDir) ==
    <<ConcatItem(TRUE, args, baseDir)>> \o items

handleConcatCommand(args, items, baseDir) == Append(items, ConcatItem(TRUE, args, baseDir))

handlePrintCommand(args, items, parameters_) ==
    Append(items, ConcatItem(FALSE, <<"$", "{">> \o args \o <<"}">>, <<>>))

\* A variant of handleEmitCommand that ends the text with a line feed.
handleEmitCommand_Newline(args, items, parameters_) ==
    Append(items, ConcatItem(FALSE, args \o <<"\n">>, <<>>))

\* A variant of handleEmitCommand that substitutes when the directive is
\* executed, against the store of that moment.
handleEmitCommand_Eager(args, items, parameters_) ==
    Append(items, ConcatItem(FALSE,
        substituteParams(args, parameters_,
                         CHOOSE o \in Orders(DOMAIN parameters_) : TRUE), <<>>))

handleEmitCommand(args, items, parameters_) == Append(items, ConcatItem(FALSE, args, <<>>))

\* handleIncludeCommand: the path processInstructions is called with.
IncludePath(args, currentInstructionsFile) ==
    IF IsAbs(args) THEN args
    ELSE FilepathAbs(FilepathJoin(FilepathDir(currentInstructionsFile), args))

----------------------------------------------------------------------------
(* dispatchCommand.  The result holds the value every pointer argument has *)
(* on return, the two return values (textBegan, err, with errArg the text  *)
(* the error message names), the path of the file                          *)
(* an `include` walks next (call; NoCall when none), the locals `command`  *)
(* and `args`, and `via`, which names the return statement reached.        *)

NoCall == <<"<none>">>

Executed == {"output", "concat", "include", "param", "set", "print", "emit",
             "text-begin", "unknown"}

\* The errors of evaluateCondition (line 203), handleParamCommand (line 338)
\* and handleSetCommand (line 357) name args; those of `else` and `endif`
\* name nothing.
withConditional(same, c) ==
    [same EXCEPT !.ifStk = c.ifStk, !.skip = c.skip, !.err = c.err, !.via = "conditional",
                 !.errArg = IF c.err = "invalid condition format" THEN same.args ELSE <<>>]

withParameters(same, r, via) ==
    [same EXCEPT !.parameters = r.parameters, !.err = r.err, !.via = via,
                 !.errArg = IF r.err # "" THEN same.args ELSE <<>>]

\* A variant of unknownCommand that ignores the line.
unknownCommand_Ignored(same) == [same EXCEPT !.via = "unknown"]

\* Lines 427-428: the default case of the switch.
unknownCommand(same) ==
    [same EXCEPT !.err = "unknown command", !.errArg = same.command, !.via = "unknown"]

\* A variant of setPrefix that keeps the prefix while suppressed.
setPrefix_Gated(args, currentPrefix, skip) == IF skip THEN currentPrefix ELSE args

\* Lines 401-404: *currentPrefix = args, before the suppression flag is
\* looked at.
setPrefix(args, currentPrefix, skip) == args

\* A variant of suppressed that lets `include` through.
suppressed_ExceptInclude(command, skip) == skip /\ command # <<"include">>

\* Lines 406-408: the test of the suppression flag.
suppressed(command, skip) == skip

\* Lines 396-430: the switch on the command.
dispatchParsed(command, args, instructionsFile, outputFile, items, parameters_, cliParamsSet_, baseDir, currentPrefix, ifStk, skip, order) ==
    LET same == [textBegan |-> FALSE, err |-> "", outputFile |-> outputFile,
                 itemsToConcat |-> items, parameters |-> parameters_,
                 currentPrefix |-> currentPrefix, ifStk |-> ifStk, skip |-> skip,
                 call |-> NoCall, command |-> command, args |-> args, via |-> "skipped",
                 errArg |-> <<>>]
    IN  IF command \in {<<"if">>, <<"else">>, <<"endif">>}
        THEN withConditional(same,
                 handleConditionalCommand(command, args, parameters_, ifStk, skip))
        ELSE IF command = <<"set-prefix">>
        THEN [same EXCEPT !.currentPrefix = setPrefix(args, currentPrefix, skip),
                          !.via = "set-prefix"]
        ELSE IF suppressed(command, skip)
        THEN same
        ELSE CASE command = <<"output">> ->
                    [same EXCEPT !.outputFile = handleOutputCommand(args, outputFile),
                                 !.via = "output"]
               [] command = <<"concat">> ->
                    [same EXCEPT !.itemsToConcat = handleConcatCommand(args, items, baseDir),
                                 !.via = "concat"]
               [] command = <<"include">> ->
                    [same EXCEPT !.call = IncludePath(args, instructionsFile),
                                 !.via = "include"]
               [] command = <<"param">> ->
                    withParameters(same, handleParamCommand(args, parameters_, order), "param")
               [] command = <<"set">> ->
                    withParameters(same,
                        handleSetCommand(args, parameters_, cliParamsSet_, order), "set")
               [] command = <<"print">> ->
                    [same EXCEPT !.itemsToConcat = handlePrintCommand(args, items, parameters_),
                                 !.via = "print"]
               [] command = <<"emit">> ->
                    [same EXCEPT !.itemsToConcat = handleEmitCommand(args, items, parameters_),
                                 !.via = "emit"]
               [] command = <<"text-begin">> ->
                    [same EXCEPT !.textBegan = TRUE, !.via = "text-begin"]
               [] OTHER -> unknownCommand(same)

\* Lines 389-394, given parts (line 389).
dispatchParts(parts, instructionsFile, outputFile, items, parameters_, cliParamsSet_, baseDir, currentPrefix, ifStk, skip, order) ==
    dispatchParsed(parts[1], IF Len(parts) > 1 THEN parts[2] ELSE <<>>,
                   instructionsFile, outputFile, items, parameters_, cliParamsSet_,
                   baseDir, currentPrefix, ifStk, skip, order)

\* Lines 389-430: the line after the prefix guard let it through.
dispatchStripped(line, instructionsFile, outputFile, items, parameters_, cliParamsSet_, baseDir, currentPrefix, ifStk, skip, order) ==
    dispatchParts(SplitN2(line, <<" ">>), instructionsFile, outputFile, items,
                  parameters_, cliParamsSet_, baseDir, currentPrefix, ifStk, skip, order)

\* A variant of prefixGuard that lets an unprefixed line through.
prefixGuard_NoDrop(line, currentPrefix) ==
    IF currentPrefix # <<>>
    THEN IF HasPrefix(line, currentPrefix \o <<":">>)
         THEN IF line = currentPrefix \o <<":">> \o <<"clear-prefix">>
              THEN "clear"
              ELSE "strip"
         ELSE "pass"
    ELSE "pass"

\* A variant of prefixGuard that lets an unprefixed set-prefix through.
prefixGuard_SetPrefixExempt(line, currentPrefix) ==
    IF currentPrefix # <<>>
    THEN IF HasPrefix(line, currentPrefix \o <<":">>)
         THEN IF line = currentPrefix \o <<":">> \o <<"clear-prefix">>
              THEN "clear"
              ELSE "strip"
         ELSE IF HasPrefix(line, <<"set-prefix">>) THEN "pass" ELSE "drop"
    ELSE "pass"

\* A variant of prefixGuard that lets an unprefixed if, else or endif through.
prefixGuard_ConditionalsExempt(line, currentPrefix) ==
    IF currentPrefix # <<>>
    THEN IF HasPrefix(line, currentPrefix \o <<":">>)
         THEN IF line = currentPrefix \o <<":">> \o <<"clear-prefix">>
              THEN "clear"
              ELSE "strip"
         ELSE IF SplitN2(line, <<" ">>)[1] \in {<<"if">>, <<"else">>, <<"endif">>}
              THEN "pass"
              ELSE "drop"
    ELSE "pass"

\* A variant of prefixGuard that treats <prefix>:clear-prefix as any other
\* prefixed line.
prefixGuard_NoClear(line, currentPrefix) ==
    IF currentPrefix # <<>>
    THEN IF HasPrefix(line, currentPrefix \o <<":">>) THEN "strip" ELSE "drop"
    ELSE "pass"

\* Lines 375-387: the prefix guard.  "strip": the line goes on without the
\* prefix; "clear": it is <prefix>:clear-prefix; "drop": it is ignored;
\* "pass": no prefix is active.
prefixGuard(line, currentPrefix) ==
    IF currentPrefix # <<>>
    THEN IF HasPrefix(line, currentPrefix \o <<":">>)
         THEN IF line = currentPrefix \o <<":">> \o <<"clear-prefix">>
              THEN "clear"
              ELSE "strip"
         ELSE "drop"
    ELSE "pass"

dispatchGuarded(guard, line, instructionsFile, outputFile, items, parameters_, cliParamsSet_, baseDir, currentPrefix, ifStk, skip, order) ==
    LET untouched == [textBegan |-> FALSE, err |-> "", outputFile |-> outputFile,
                      itemsToConcat |-> items, parameters |-> parameters_,
                      currentPrefix |-> currentPrefix, ifStk |-> ifStk, skip |-> skip,
                      call |-> NoCall, command |-> <<>>, args |-> <<>>, via |-> "dropped",
                      errArg |-> <<>>]
    IN  CASE guard = "clear" ->
                [untouched EXCEPT !.currentPrefix = <<>>, !.via = "clear-prefix"]
          [] guard = "drop" -> untouched
          [] guard = "strip" ->
                dispatchStripped(TrimPrefix(line, currentPrefix \o <<":">>),
                                 instructionsFile, outputFile, items, parameters_,
                                 cliParamsSet_, baseDir, currentPrefix, ifStk, skip, order)
          [] guard = "pass" ->
                dispatchStripped(line, instructionsFile, outputFile, items, parameters_,
                                 cliParamsSet_, baseDir, currentPrefix, ifStk, skip, order)

dispatchCommand(line, instructionsFile, outputFile, items, parameters_, cliParamsSet_, baseDir, currentPrefix, ifStk, skip, order) ==
    dispatchGuarded(prefixGuard(line, currentPrefix), line, instructionsFile, outputFile,
                    items, parameters_, cliParamsSet_, baseDir, currentPrefix, ifStk,
                    skip, order)

----------------------------------------------------------------------------
(* processInstructions: one frame per call.  Three fields are history:     *)
(* ifInfo is kept beside ifStk and holds, for every open `if`, the         *)
(* suppression flag when it was reached, the value pushed for it, the      *)
(* branch being read and the `else`s seen; callerPrefix is the includer's  *)
(* prefix when the call was made; id numbers the calls in the order they   *)
(* are made (the top-level call is 1).                                     *)

MainFile == <<"main.dsl">>

Frame(instructionsFile, baseDir) ==
    [file |-> instructionsFile, baseDir |-> baseDir,
     inTextBlock |-> FALSE, textBlock |-> <<>>,
     ifStk |-> <<>>, skip |-> FALSE, currentPrefix |-> <<>>,
     ifInfo |-> <<>>, callerPrefix |-> <<>>, id |-> 1]

Top == stack[Len(stack)]

NoVal == <<"<unset>">>

NoIf == [skipBefore |-> FALSE, cond |-> FALSE, br |-> "none", elses |-> 0]

\* last: the line read by the latest step (trimmed, outside a text block), the
\* frame that read it (depth), that frame's prefix, suppression flag and text
\* flag before the step, dispatchCommand's command, args and via; closed is
\* the ifInfo entry an `endif` removed; callerPrefix and calleePrefix are
\* those of the frame a return removed.
NoLast == [line |-> <<>>, via |-> "none", depth |-> 0, prefix |-> <<>>,
           skip |-> FALSE, inText |-> FALSE, command |-> <<>>, args |-> <<>>,
           closed |-> NoIf, callerPrefix |-> <<>>, calleePrefix |-> <<>>]

\* History of the conditional frames, updated as handleConditionalCommand
\* updates ifStk.
NextIfInfo(info, command, skipBefore, ifStkAfter) ==
    CASE command = <<"if">> ->
            Append(info, [skipBefore |-> skipBefore, cond |-> peek(ifStkAfter),
                          br |-> "if", elses |-> 0])
      [] command = <<"else">> ->
            [info EXCEPT ![Len(info)] = [@ EXCEPT !.br = "else", !.elses = @ + 1]]
      [] command = <<"endif">> -> popped(info)

\* History of what `set` and `param` computed for a name.
DefOf(d, key) ==
    IF key \in DOMAIN d THEN d[key] ELSE [lastSet |-> NoVal, firstParam |-> NoVal]

RecordDef(d, via, key, val) ==
    IF via = "set"
    THEN MapPut(d, key, [DefOf(d, key) EXCEPT !.lastSet = val])
    ELSE IF via = "param" /\ DefOf(d, key).firstParam = NoVal
    THEN MapPut(d, key, [DefOf(d, key) EXCEPT !.firstParam = val])
    ELSE d

RecordParts(d, via, kv, params, order) ==
    RecordDef(d, via, kv[1], substituteParams(kv[2], params, order))

NextDefs(d, via, args, params, order) ==
    RecordParts(d, via, SplitN2(args, <<"=">>), params, order)

\* The ids of the calls on the stack, outermost first.
CallPath == [i \in 1..Len(stack) |-> stack[i].id]

\* History of the fragment-producing directives: what was executed (kind,
\* args; for a text block the lines gathered), by which call, with which
\* base directory and under which store.
Producer(kind, args) ==
    [kind |-> kind, args |-> args, baseDir |-> Top.baseDir, path |-> CallPath,
     store |-> parameters]

\* main, lines 43-74: the flags are parsed, the store is loaded from the
\* parameter files, then from --param, and the walk of the top-level file
\* begins.
InitRun(fp, ps, flag, maxLines) ==
    /\ outputFlag = flag
    /\ finalOutputFile = <<>>
    /\ created = FALSE
    /\ written = <<>>
    /\ renderIdx = 0
    /\ announced = FALSE
    /\ errArg = <<>>
    /\ produced = <<>>
    /\ calls = 1
    /\ fileParams = fp
    /\ paramsSlice = ps
    /\ cliParamsSet = LockedNames(ps)
    /\ parameters = LoadEntries(ps, LoadEntries(fp, EmptyMap, 1), 1)
    /\ dslOutputFile = <<>>
    /\ itemsToConcat = <<>>
    /\ stack = <<Frame(MainFile, FilepathDir(MainFile))>>
    /\ pc = "walk"
    /\ err = ""
    /\ subIdx = 0
    /\ budget = maxLines
    /\ last = NoLast
    /\ defs = EmptyMap
    /\ outputs = <<>>

\* A run without --output.
InitWith(fp, ps, maxLines) == InitRun(fp, ps, <<>>, maxLines)

\* Lines 452-466, given the trimmed line without the prefix.
TextLineTrimmed(l, trimmedLine) ==
    /\ itemsToConcat' = IF trimmedLine = <<"text-end">>
                        THEN Append(itemsToConcat, ConcatItem(FALSE, Top.textBlock, <<>>))
                        ELSE itemsToConcat
    /\ stack' = [stack EXCEPT ![Len(stack)] =
                    IF trimmedLine = <<"text-end">>
                    THEN [@ EXCEPT !.inTextBlock = FALSE, !.textBlock = <<>>]
                    ELSE [@ EXCEPT !.textBlock = @ \o l \o <<"\n">>]]
    /\ last' = [NoLast EXCEPT !.line = l,
                              !.via = IF trimmedLine = <<"text-end">> THEN "text-end" ELSE "text",
                              !.depth = Len(stack), !.prefix = Top.currentPrefix,
                              !.skip = Top.skip, !.inText = TRUE]
    /\ produced' = IF trimmedLine = <<"text-end">>
                   THEN Append(produced, Producer("text", Top.textBlock))
                   ELSE produced
    /\ UNCHANGED <<parameters, dslOutputFile, pc, err, errArg, defs, outputs, calls>>

\* A variant of TextLine that leaves comment lines out of the block.
TextLine_SkipsComments(l) ==
    IF HasPrefix(TrimSpace(l), <<"#">>)
    THEN /\ last' = [NoLast EXCEPT !.line = l, !.via = "text", !.depth = Len(stack),
                                   !.prefix = Top.currentPrefix, !.skip = Top.skip,
                                   !.inText = TRUE]
         /\ UNCHANGED <<itemsToConcat, stack, produced, parameters, dslOutputFile, pc, err,
                        errArg, defs, outputs, calls>>
    ELSE TextLineTrimmed(l, IF Top.currentPrefix # <<>>
                            THEN TrimPrefix(TrimSpace(l), Top.currentPrefix \o <<":">>)
                            ELSE TrimSpace(l))

\* One iteration of the scanner loop inside a text block (lines 451-468).
TextLine(l) ==
    TextLineTrimmed(l, IF Top.currentPrefix # <<>>
                       THEN TrimPrefix(TrimSpace(l), Top.currentPrefix \o <<":">>)
                       ELSE TrimSpace(l))

\* Lines 476-479 with the effects of dispatchCommand, whose result is r; for
\* `include`, processInstructions is entered for r.call, whose os.Open
\* succeeds (opens) or fails.
Dispatched(trimmedLine, r, order, opens) ==
    /\ (r.call # NoCall /\ opens) => Len(stack) < MaxDepth
    /\ parameters' = r.parameters
    /\ dslOutputFile' = r.outputFile
    /\ itemsToConcat' = r.itemsToConcat
    /\ last' = [NoLast EXCEPT !.line = trimmedLine, !.depth = Len(stack),
                              !.prefix = Top.currentPrefix, !.skip = Top.skip,
                              !.via = r.via, !.command = r.command, !.args = r.args,
                              !.closed = IF r.via = "conditional" /\ r.err = ""
                                            /\ r.command = <<"endif">>
                                         THEN Top.ifInfo[Len(Top.ifInfo)]
                                         ELSE NoIf]
    /\ outputs' = IF r.via = "output" THEN Append(outputs, r.args) ELSE outputs
    /\ produced' = IF r.via \in {"concat", "print", "emit"}
                   THEN Append(produced, Producer(r.via, r.args))
                   ELSE produced
    /\ calls' = IF r.err = "" /\ r.call # NoCall /\ opens THEN calls + 1 ELSE calls
    /\ defs' = IF r.err = "" /\ r.via \in {"set", "param"}
               THEN NextDefs(defs, r.via, r.args, parameters, order)
               ELSE defs
    /\ stack' = [stack EXCEPT ![Len(stack)] =
                    [@ EXCEPT !.ifStk = r.ifStk, !.skip = r.skip,
                              !.currentPrefix = r.currentPrefix,
                              !.inTextBlock = (r.err = "" /\ r.textBegan),
                              !.ifInfo = IF r.via = "conditional" /\ r.err = ""
                                         THEN NextIfInfo(@, r.command, Top.skip, r.ifStk)
                                         ELSE @]]
                \o (IF r.err = "" /\ r.call # NoCall /\ opens
                    THEN <<[Frame(r.call, FilepathDir(r.call))
                               EXCEPT !.callerPrefix = Top.currentPrefix,
                                      !.id = calls + 1]>>
                    ELSE <<>>)
    /\ pc' = IF r.err # "" \/ (r.call # NoCall /\ ~opens) THEN "error" ELSE pc
    /\ err' = IF r.err # "" THEN r.err
              ELSE IF r.call # NoCall /\ ~opens THEN "error opening instructions file"
              ELSE err
    /\ errArg' = IF r.err # "" THEN r.errArg
                 ELSE IF r.call # NoCall /\ ~opens THEN r.call
                 ELSE errArg

\* Lines 470-479, given the trimmed line.
DirectiveTrimmed(trimmedLine, order, opens) ==
    IF trimmedLine = <<>> \/ HasPrefix(trimmedLine, <<"#">>)
    THEN /\ last' = [NoLast EXCEPT !.line = trimmedLine, !.depth = Len(stack),
                                   !.prefix = Top.currentPrefix, !.skip = Top.skip,
                                   !.via = "blank"]
         /\ UNCHANGED <<parameters, dslOutputFile, itemsToConcat, stack, pc, err, errArg,
                        defs, outputs, produced, calls>>
    ELSE Dispatched(trimmedLine,
                    dispatchCommand(trimmedLine, Top.file, dslOutputFile, itemsToConcat,
                                    parameters, cliParamsSet, Top.baseDir,
                                    Top.currentPrefix, Top.ifStk, Top.skip, order),
                    order, opens)

\* One iteration of the scanner loop outside a text block.
DirectiveLine(l, order, opens) == DirectiveTrimmed(TrimSpace(l), order, opens)

\* The scanner yields the next line of the file being walked.
ReadLine(l) ==
    /\ pc = "walk"
    /\ budget > 0
    /\ budget' = budget - 1
    /\ \E order \in Orders(DOMAIN parameters), opens \in BOOLEAN :
          IF Top.inTextBlock THEN TextLine(l) ELSE DirectiveLine(l, order, opens)
    /\ UNCHANGED <<fileParams, paramsSlice, cliParamsSet, subIdx, renderVars>>

\* A variant of unclosedIf that tests the top-level file only.
unclosedIf_TopLevelOnly(stack_) == Len(stack_) = 1 /\ Len(stack_[1].ifStk) > 0

\* Line 482: the test made when the scanner of the walked file is exhausted.
unclosedIf(stack_) == Len(stack_[Len(stack_)].ifStk) > 0

\* A variant of returnTo in which the prefix is one variable shared by all
\* calls: the includer goes on with the prefix the included file ended with.
returnTo_SharedPrefix(stack_) ==
    IF Len(stack_) > 1
    THEN [popped(stack_) EXCEPT ![Len(stack_) - 1].currentPrefix =
                                    stack_[Len(stack_)].currentPrefix]
    ELSE popped(stack_)

\* processInstructions returns: its frame, with its prefix and its conditional
\* stack, is gone, and the includer's frame is as the call left it.
returnTo(stack_) == popped(stack_)

\* The scanner reaches the end of the file (lines 482-486): the call returns
\* to the includer, or to main, which starts its substitution pass.
EndOfFile ==
    /\ pc = "walk"
    /\ IF unclosedIf(stack)
       THEN /\ pc' = "error"
            /\ err' = "unclosed if block(s)"
            /\ UNCHANGED <<stack, subIdx>>
       ELSE /\ stack' = returnTo(stack)
            /\ pc' = IF Len(stack) = 1 THEN "subst" ELSE "walk"
            /\ subIdx' = IF Len(stack) = 1 THEN 1 ELSE subIdx
            /\ err' = err
    /\ last' = [NoLast EXCEPT !.via = "eof", !.depth = Len(stack),
                              !.callerPrefix = Top.callerPrefix,
                              !.calleePrefix = Top.currentPrefix]
    /\ UNCHANGED <<fileParams, paramsSlice, cliParamsSet, parameters, dslOutputFile,
                   itemsToConcat, budget, defs, outputs, errArg, produced, calls,
                   renderVars>>

\* main, lines 81-83: one iteration of the re-substitution loop.
SubstituteItem ==
    /\ pc = "subst"
    /\ subIdx <= Len(itemsToConcat)
    /\ \E order \in Orders(DOMAIN parameters) :
          itemsToConcat' = [itemsToConcat EXCEPT ![subIdx].Value =
                               substituteParams(@, parameters, order)]
    /\ subIdx' = subIdx + 1
    /\ last' = NoLast
    /\ UNCHANGED <<fileParams, paramsSlice, cliParamsSet, parameters, dslOutputFile,
                   stack, pc, err, budget, defs, outputs, errArg, produced, calls,
                   renderVars>>

\* A variant of substitutedOutput that leaves the recorded path as written.
substitutedOutput_Raw(dslOutputFile_, parameters_, order) == dslOutputFile_

\* main, lines 84-86.
substitutedOutput(dslOutputFile_, parameters_, order) ==
    IF dslOutputFile_ # <<>>
    THEN substituteParams(dslOutputFile_, parameters_, order)
    ELSE dslOutputFile_

\* main, lines 84-86: the recorded output path is substituted.
SubstituteOutput ==
    /\ pc = "subst"
    /\ subIdx > Len(itemsToConcat)
    /\ \E order \in Orders(DOMAIN parameters) :
          dslOutputFile' = substitutedOutput(dslOutputFile, parameters, order)
    /\ pc' = "ready"
    /\ last' = NoLast
    /\ UNCHANGED <<fileParams, paramsSlice, cliParamsSet, parameters, itemsToConcat,
                   stack, err, subIdx, budget, defs, outputs, errArg, produced, calls,
                   renderVars>>

----------------------------------------------------------------------------
(* main's choice of the output target and runConcat.  What is written is   *)
(* a sequence of chunks, one per fragment: the text written, or the path   *)
(* of the file whose bytes were copied; partial marks a chunk whose write  *)
(* failed after some of its bytes.                                         *)

\* main, lines 88-91.
chooseOutput(dslOutputFile_, outputFlag_) ==
    IF dslOutputFile_ # <<>> THEN dslOutputFile_ ELSE outputFlag_

\* main, lines 93-104, given finalOutputFile; os.Create succeeds (creates) or
\* fails.
OpenTarget(final, creates) ==
    /\ finalOutputFile' = final
    /\ created' = (final # <<>> /\ creates)
    /\ pc' = IF final # <<>> /\ ~creates THEN "error" ELSE "render"
    /\ err' = IF final # <<>> /\ ~creates THEN "error creating output file" ELSE err
    /\ errArg' = IF final # <<>> /\ ~creates THEN final ELSE errArg
    /\ renderIdx' = 1

\* main, lines 88-106: the target is chosen and opened, runConcat is called.
ChooseOutput ==
    /\ pc = "ready"
    /\ \E creates \in BOOLEAN : OpenTarget(chooseOutput(dslOutputFile, outputFlag), creates)
    /\ last' = NoLast
    /\ UNCHANGED <<fileParams, paramsSlice, cliParamsSet, parameters, dslOutputFile,
                   itemsToConcat, stack, subIdx, budget, defs, outputs, produced, calls,
                   outputFlag, written, announced>>

unescapeString(s) ==
    ReplaceAll(ReplaceAll(ReplaceAll(ReplaceAll(s, <<"@", "@", "n">>, <<"\n">>),
                                     <<"@", "@", "r">>, <<"\r">>),
                          <<"@", "@", "t">>, <<"\t">>),
               <<"@", "@", "s">>, <<" ">>)

\* Lines 494-497.
resolvedPath(valueToWrite, baseDir) ==
    IF IsAbs(valueToWrite) THEN valueToWrite ELSE FilepathJoin(baseDir, valueToWrite)

\* What runConcat writes for a fragment whose unescaped value is valueToWrite.
Chunk(isFile, valueToWrite, baseDir) ==
    [IsFile |-> isFile,
     Value |-> IF isFile THEN resolvedPath(valueToWrite, baseDir) ELSE valueToWrite,
     partial |-> FALSE]

\* What runConcat writes for a fragment (lines 492-514).
renderItem(item) == Chunk(item.IsFile, unescapeString(item.Value), item.BaseDir)

\* The outcomes of one iteration of runConcat's loop.
Outcomes(item) == IF item.IsFile THEN {"ok", "open", "copy"} ELSE {"ok", "write"}

\* Lines 490-515, one iteration, given the chunk and the outcome of its I/O.
WriteChunk(chunk, outcome) ==
    /\ written' = CASE outcome = "ok" -> Append(written, chunk)
                     [] outcome = "open" -> written
                     [] OTHER -> Append(written, [chunk EXCEPT !.partial = TRUE])
    /\ renderIdx' = IF outcome = "ok" THEN renderIdx + 1 ELSE renderIdx
    /\ pc' = IF outcome = "ok" THEN pc ELSE "error"
    /\ err' = CASE outcome = "ok" -> err
                 [] outcome = "open" -> "error opening file"
                 [] outcome = "copy" -> "error copying from"
                 [] outcome = "write" -> "error writing text to output"
    /\ errArg' = IF outcome \in {"open", "copy"} THEN chunk.Value ELSE errArg

WriteItem ==
    /\ pc = "render"
    /\ renderIdx <= Len(itemsToConcat)
    /\ \E outcome \in Outcomes(itemsToConcat[renderIdx]) :
          WriteChunk(renderItem(itemsToConcat[renderIdx]), outcome)
    /\ last' = NoLast
    /\ UNCHANGED <<fileParams, paramsSlice, cliParamsSet, parameters, dslOutputFile,
                   itemsToConcat, stack, subIdx, budget, defs, outputs, produced, calls,
                   outputFlag, finalOutputFile, created, announced>>

\* Lines 517-521: the loop is over; the success message is printed unless the
\* fragments went to standard output.
Finish ==
    /\ pc = "render"
    /\ renderIdx > Len(itemsToConcat)
    /\ pc' = "done"
    /\ announced' = (finalOutputFile # <<>>)
    /\ last' = NoLast
    /\ UNCHANGED <<fileParams, paramsSlice, cliParamsSet, parameters, dslOutputFile,
                   itemsToConcat, stack, err, errArg, subIdx, budget, defs, outputs,
                   produced, calls, outputFlag, finalOutputFile, created, written,
                   renderIdx>>

----------------------------------------------------------------------------
(* Specifications: the same program over different line pools.             *)

K == <<"K">>
J == <<"J">>

Ln(command, args) == <<command, " ">> \o args

ParamLines ==
    { Ln("set", <<"K", "=", "a">>), Ln("set", <<"K", "=", "b">>),
      Ln("param", <<"K", "=", "c">>), Ln("param", <<"K", "=", "d">>),
      Ln("set", <<"K", "=", "$", "{", "J", "}">>), Ln("param", <<"J", "=", "b">>),
      Ln("include", <<"f">>), Ln("emit", <<"$", "{", "K", "}">>) }

ParamFileChoices == { <<>>, << <<"K", "=", "f">> >> }

ParamsSliceChoices == { <<>>, << <<"K", "=", "v">> >>, << <<"J", "=", "w">>, <<"novalue">> >> }

InitParam ==
    \E fp \in ParamFileChoices, ps \in ParamsSliceChoices : InitWith(fp, ps, MaxLinesParam)

NextParam ==
    \/ \E l \in ParamLines : ReadLine(l)
    \/ EndOfFile
    \/ SubstituteItem
    \/ SubstituteOutput
    \/ ChooseOutput
    \/ WriteItem
    \/ Finish

SpecParam == InitParam /\ [][NextParam]_vars

----------------------------------------------------------------------------
(* Claims about the parameter store, checked under SpecParam.              *)

CallerParams == LoadEntries(paramsSlice, EmptyMap, 1)

FileDefaults == LoadEntries(fileParams, EmptyMap, 1)

InitialStore == LoadEntries(paramsSlice, FileDefaults, 1)

LastKey == SplitN2(last.args, <<"=">>)[1]

\* C1: every name locked by --param keeps the caller-supplied value in every
\* state of the traversal and of the final substitution pass, whatever `param`
\* and `set` directives the top-level file and the included files execute.
C1_LockedKeepsCallerValue ==
    \A k \in cliParamsSet : k \in DOMAIN parameters /\ parameters[k] = CallerParams[k]

\* A `set` of a locked name was executed in an included file.
C1_Witness ==
    /\ last.via = "set"
    /\ LastKey \in cliParamsSet
    /\ last.depth = 2

\* C3: for a name that comes from a parameter file, is not locked and was
\* never assigned by `set`, the value after the first executed `param` is the
\* value that `param` computed, not the file's value.
C3_ParamOverridesFileDefault ==
    \A k \in DOMAIN defs :
        (/\ k \in DOMAIN FileDefaults
         /\ k \notin cliParamsSet
         /\ defs[k].lastSet = NoVal
         /\ defs[k].firstParam # NoVal)
        => parameters[k] = defs[k].firstParam

\* C4: for a name that is not locked and not in the initial store, the value
\* is the one computed by the last executed `set` if any `set` was executed,
\* wherever the `param` directives stand, and else the one computed by the
\* first executed `param`.
C4_SetWinsElseFirstParam ==
    \A k \in DOMAIN defs :
        (k \notin cliParamsSet /\ k \notin DOMAIN InitialStore)
        => parameters[k] = IF defs[k].lastSet # NoVal THEN defs[k].lastSet
                           ELSE defs[k].firstParam

\* A `param` was executed after a `set` of the same free name and after an
\* earlier `param` that computed another value.
C4_Witness ==
    /\ last.via = "param"
    /\ LastKey \notin cliParamsSet
    /\ LastKey \notin DOMAIN InitialStore
    /\ LastKey \in DOMAIN defs
    /\ defs[LastKey].lastSet # NoVal
    /\ defs[LastKey].firstParam # NoVal
    /\ defs[LastKey].firstParam # SplitN2(last.args, <<"=">>)[2]

----------------------------------------------------------------------------
(* Conditionals, checked under SpecCond: A is 1, B has no value.           *)

CondLines ==
    { Ln("if", <<"A", "=", "1">>), Ln("if", <<"B", "=", "1">>),
      <<"else">>, <<"endif">>, Ln("emit", <<"x">>) }

InitCond == InitWith(<<>>, << <<"A", "=", "1">> >>, MaxLinesCond)

NextCond ==
    \/ \E l \in CondLines : ReadLine(l)
    \/ EndOfFile
    \/ SubstituteItem
    \/ SubstituteOutput
    \/ ChooseOutput
    \/ WriteItem
    \/ Finish

SpecCond == InitCond /\ [][NextCond]_vars

\* The frame that read the latest line.
Reader == stack[last.depth]

\* The latest line is a directive that reached the suppression test of
\* dispatchCommand (line 406): it was executed or it was suppressed.
AtSkipTest == last.via \in Executed \/ last.via = "skipped"

\* An `if` that pushed false (its condition was false, or it was reached
\* while suppressed) is open and its `else` has not been read.
InFalseIf(f) == \E i \in 1..Len(f.ifInfo) : f.ifInfo[i].br = "if" /\ ~f.ifInfo[i].cond

\* C2: a directive between an `if` that was false or suppressed and that
\* `if`'s `else`/`endif` is never executed, at any depth of nesting.
C2_FalseIfBodySuppressed ==
    last.via \in Executed => ~InFalseIf(Reader)

InnermostIf == Reader.ifInfo[Len(Reader.ifInfo)]

\* C5: for an `if C` reached unsuppressed, with at most one `else`, a
\* directive of the if-body is executed iff C is true and a directive of the
\* else-body is executed iff C is false; after the `endif` of such an `if`
\* with one `else`, the suppression flag is what it was before the `if`.
C5_ExactlyOneBranch ==
    /\ (AtSkipTest /\ Len(Reader.ifInfo) > 0
           /\ ~InnermostIf.skipBefore /\ InnermostIf.elses <= 1)
       => ((last.via \in Executed) <=>
              (IF InnermostIf.br = "if" THEN InnermostIf.cond ELSE ~InnermostIf.cond))
    /\ (last.via = "conditional" /\ last.command = <<"endif">> /\ pc = "walk"
           /\ last.closed.elses = 1 /\ ~last.closed.skipBefore)
       => Reader.skip = last.closed.skipBefore

\* An unsuppressed if/else/endif was closed after exactly one of its two
\* bodies, each holding an `emit`, appended a fragment.
C5_Witness ==
    /\ last.via = "conditional" /\ last.command = <<"endif">> /\ pc = "walk"
    /\ last.closed.elses = 1 /\ ~last.closed.skipBefore
    /\ budget = MaxLinesCond - 5
    /\ Len(itemsToConcat) = 1

----------------------------------------------------------------------------
(* The prefix guard, checked under SpecPrefix.                             *)

P == <<"p">>

Pre(line) == P \o <<":">> \o line

PrefixLines ==
    { Ln("set-prefix", <<"p">>), Ln("set-prefix", <<"q">>), Pre(Ln("set-prefix", <<"q">>)),
      Pre(<<"clear-prefix">>), <<"clear-prefix">>,
      Ln("emit", <<"x">>), Pre(Ln("emit", <<"x">>)),
      Ln("set", <<"K", "=", "a">>), Pre(Ln("set", <<"K", "=", "a">>)),
      Ln("output", <<"o">>), Pre(Ln("output", <<"o">>)),
      Ln("bogus", <<"x">>), Pre(Ln("bogus", <<"x">>)),
      Ln("include", <<"f">>), Pre(Ln("include", <<"f">>)),
      Ln("if", <<"B", "=", "1">>), Pre(Ln("if", <<"B", "=", "1">>)),
      Pre(<<"text-begin">>), <<"text-end">> }

InitPrefix == InitWith(<<>>, <<>>, MaxLinesPrefix)

NextPrefix ==
    \/ \E l \in PrefixLines : ReadLine(l)
    \/ EndOfFile
    \/ SubstituteItem
    \/ SubstituteOutput
    \/ ChooseOutput
    \/ WriteItem
    \/ Finish

SpecPrefix == InitPrefix /\ [][NextPrefix]_vars

\* The step reads a directive line (not blank, not a comment, not inside a
\* text block) while a prefix is active.
ReadsUnderPrefix ==
    /\ pc = "walk" /\ budget' = budget - 1
    /\ ~Top.inTextBlock
    /\ Top.currentPrefix # <<>>
    /\ last'.via # "blank"

\* The step leaves the store, the fragments, the output path, the error state
\* and every frame as they were.
NoEffect ==
    /\ parameters' = parameters /\ itemsToConcat' = itemsToConcat
    /\ dslOutputFile' = dslOutputFile /\ stack' = stack
    /\ pc' = pc /\ err' = err

\* The step has the effects that dispatchCommand has on `line` when no prefix
\* is active (result e), the reader's prefix being left as it is unless e
\* sets one.
EffectOf(e) ==
    /\ parameters' = e.parameters /\ itemsToConcat' = e.itemsToConcat
    /\ dslOutputFile' = e.outputFile
    /\ stack'[Len(stack)].ifStk = e.ifStk /\ stack'[Len(stack)].skip = e.skip
    /\ stack'[Len(stack)].inTextBlock = (e.err = "" /\ e.textBegan)
    /\ stack'[Len(stack)].currentPrefix =
          IF e.via = "set-prefix" THEN e.currentPrefix ELSE Top.currentPrefix
    /\ (e.err # "") => (pc' = "error" /\ err' = e.err)
    /\ (e.err = "" /\ e.call = NoCall) => (pc' = pc /\ err' = err /\ Len(stack') = Len(stack))
    /\ (e.err = "" /\ e.call # NoCall) =>
          \/ pc' = "error" /\ err' = "error opening instructions file"
          \/ pc' = pc /\ Len(stack') = Len(stack) + 1 /\ stack'[Len(stack')].file = e.call

AsUnprefixed(line) ==
    \E order \in Orders(DOMAIN parameters) :
        EffectOf(dispatchCommand(line, Top.file, dslOutputFile, itemsToConcat, parameters,
                                 cliParamsSet, Top.baseDir, <<>>, Top.ifStk, Top.skip, order))

PrefixRule(exceptClear) ==
    ReadsUnderPrefix =>
        IF ~HasPrefix(last'.line, Top.currentPrefix \o <<":">>) THEN NoEffect
        ELSE IF exceptClear /\ last'.line = Top.currentPrefix \o <<":", "clear-prefix">>
        THEN TRUE
        ELSE AsUnprefixed(TrimPrefix(last'.line, Top.currentPrefix \o <<":">>))

C7_PrefixIsFileLocal ==
    /\ (last.via = "include" /\ pc = "walk")
       => (Len(stack) = last.depth + 1 /\ Top.currentPrefix = <<>>)
    /\ (last.via = "eof" /\ pc = "walk")
       => Top.currentPrefix = last.callerPrefix

\* An include made under prefix p by a file that is itself included returned
\* from a file that ended with another prefix active.
C7_Witness ==
    /\ last.via = "eof" /\ pc = "walk" /\ last.depth = 3
    /\ last.callerPrefix = P
    /\ last.calleePrefix = <<"q">>

\* The latest line is a directive line that went through dispatchCommand.
WasDispatched == last.via \notin {"none", "eof", "blank", "text", "text-end"}

LineCommand(line) == SplitN2(line, <<" ">>)[1]

LineArgs(line) == IF Contains(line, <<" ">>) THEN SplitN2(line, <<" ">>)[2] ELSE <<>>

\* C8, as stated: a line `set-prefix Q` sets the active prefix to Q in every
\* state of the prefix guard.
C8_SetPrefixNeverFiltered ==
    (WasDispatched /\ LineCommand(last.line) = <<"set-prefix">>)
    => Reader.currentPrefix = LineArgs(last.line)

\* C8, amended: `set-prefix Q` sets the prefix to Q when no prefix is active,
\* and `P:set-prefix Q` does when P is active; while P is active a line
\* `set-prefix Q` that does not begin with P: is dropped and P stays active.
C8_SetPrefixWhenNotFiltered ==
    /\ (WasDispatched /\ last.prefix = <<>> /\ LineCommand(last.line) = <<"set-prefix">>)
       => Reader.currentPrefix = LineArgs(last.line)
    /\ (WasDispatched /\ last.prefix # <<>>
           /\ HasPrefix(last.line, last.prefix \o <<":", "set-prefix", " ">>))
       => Reader.currentPrefix =
             LineArgs(TrimPrefix(last.line, last.prefix \o <<":">>))
    /\ (WasDispatched /\ last.prefix # <<>>
           /\ LineCommand(last.line) = <<"set-prefix">>
           /\ ~HasPrefix(last.line, last.prefix \o <<":">>))
       => (last.via = "dropped" /\ Reader.currentPrefix = last.prefix)

\* `set-prefix q` was read while p was active.
C8_Witness ==
    /\ last.line = Ln("set-prefix", <<"q">>)
    /\ last.prefix = P
    /\ WasDispatched

\* C9: with P active, `P:clear-prefix` deactivates the prefix and an
\* unprefixed `clear-prefix` is dropped and leaves P active; with no prefix
\* active no line is filtered.
C9_ClearPrefix ==
    /\ (WasDispatched /\ last.prefix # <<>>
           /\ last.line = last.prefix \o <<":", "clear-prefix">>)
       => (last.via = "clear-prefix" /\ Reader.currentPrefix = <<>>
           /\ pc = "walk" /\ Len(stack) = last.depth)
    /\ (WasDispatched /\ last.prefix # <<>> /\ last.line = <<"clear-prefix">>)
       => (last.via = "dropped" /\ Reader.currentPrefix = last.prefix /\ pc = "walk")
    /\ (WasDispatched /\ last.prefix = <<>>)
       => last.via \notin {"dropped", "clear-prefix"}

\* After set-prefix p, an unprefixed clear-prefix and p:clear-prefix, an
\* unprefixed `emit x` was executed.
C9_Witness ==
    /\ last.line = Ln("emit", <<"x">>) /\ last.via = "emit" /\ last.prefix = <<>>
    /\ budget = MaxLinesPrefix - 4
    /\ Len(stack) = 1
    /\ outputs = <<>> /\ parameters = EmptyMap /\ Len(itemsToConcat) = 1

----------------------------------------------------------------------------
(* The `output` directive, checked under SpecOutput.                       *)

OutputLines ==
    { Ln("output", <<"a">>), Ln("output", <<"b">>), <<"output">>,
      Ln("include", <<"f">>), Ln("emit", <<"x">>) }

InitOutput == InitWith(<<>>, <<>>, MaxLinesOutput)

NextOutput ==
    \/ \E l \in OutputLines : ReadLine(l)
    \/ EndOfFile
    \/ SubstituteItem
    \/ SubstituteOutput
    \/ ChooseOutput
    \/ WriteItem
    \/ Finish

SpecOutput == InitOutput /\ [][NextOutput]_vars

\* C10, as stated: the recorded output path is the argument of the first
\* `output` directive executed; later ones leave it unchanged.
C10_FirstOutputWins ==
    (outputs # <<>> /\ pc = "walk") => dslOutputFile = outputs[1]

\* C10, amended: the recorded output path is the argument of the last
\* `output` directive executed: every executed `output` overwrites it.
C10_LastOutputWins ==
    (outputs # <<>> /\ pc = "walk") => dslOutputFile = outputs[Len(outputs)]

\* An included file executed `output b` after the includer's `output a`.
C10_Witness ==
    /\ outputs = << <<"a">>, <<"b">> >>
    /\ last.via = "output" /\ last.depth = 2
    /\ pc = "walk"

----------------------------------------------------------------------------
(* The output target, checked under SpecTarget: runs with and without      *)
(* --output over files that record paths with `output`.                    *)

MaxLinesTarget == 3

TargetLines ==
    { Ln("output", <<"a">>), Ln("output", <<"$", "{", "X", "}">>),
      Ln("set", <<"X", "=">>), Ln("set", <<"X", "=", "b">>), Ln("emit", <<"x">>) }

OutputFlagChoices == { <<>>, <<"c">>, <<"$", "{", "X", "}">> }

InitTarget == \E flag \in OutputFlagChoices : InitRun(<<>>, <<>>, flag, MaxLinesTarget)

NextTarget ==
    \/ \E l \in TargetLines : ReadLine(l)
    \/ EndOfFile
    \/ SubstituteItem
    \/ SubstituteOutput
    \/ ChooseOutput
    \/ WriteItem
    \/ Finish

SpecTarget == InitTarget /\ [][NextTarget]_vars

\* main has chosen the target.
TargetChosen == pc \in {"render", "done"}

\* C11: once the target is chosen, it is the path recorded by `output` (as
\* substituted) if an `output` directive was executed, even when --output
\* was given; else it is the --output path; and the fragments go to standard
\* output (no file is created) exactly when that choice is empty.
C11_OutputPrecedence ==
    TargetChosen =>
        /\ finalOutputFile = IF outputs # <<>> THEN dslOutputFile ELSE outputFlag
        /\ created = (finalOutputFile # <<>>)

----------------------------------------------------------------------------
(* The fragment list, checked under SpecOrder: files that produce          *)
(* fragments of every kind, in the top-level file and in included files.   *)

MaxLinesOrder == 4

OrderLines ==
    { Ln("emit", <<"x">>), Ln("emit", <<"y">>), Ln("concat", <<"f">>), Ln("print", <<"K">>),
      Ln("include", <<"g">>), <<"text-begin">>, <<"text-end">> }

InitOrder == InitRun(<<>>, <<>>, <<>>, MaxLinesOrder)

NextOrder ==
    \/ \E l \in OrderLines : ReadLine(l)
    \/ EndOfFile
    \/ SubstituteItem
    \/ SubstituteOutput
    \/ ChooseOutput
    \/ WriteItem
    \/ Finish

SpecOrder == InitOrder /\ [][NextOrder]_vars

\* The fragment a fragment-producing directive contributes when it is
\* executed, before the final substitution.
FragmentOf(p) ==
    CASE p.kind = "concat" -> ConcatItem(TRUE, p.args, p.baseDir)
      [] p.kind = "print" -> ConcatItem(FALSE, Placeholder(p.args), <<>>)
      [] p.kind \in {"emit", "text"} -> ConcatItem(FALSE, p.args, <<>>)

\* The list holds one fragment per executed fragment-producing directive, in
\* the order of execution.
InExecutionOrder ==
    /\ Len(itemsToConcat) = Len(produced)
    /\ \A i \in 1..Len(produced) :
          /\ itemsToConcat[i].IsFile = FragmentOf(produced[i]).IsFile
          /\ itemsToConcat[i].BaseDir = FragmentOf(produced[i]).BaseDir
          /\ pc = "walk" => itemsToConcat[i] = FragmentOf(produced[i])

\* The fragments produced during one call of processInstructions (by the
\* file it walks and the files that one includes) are contiguous.
IncludesContiguous ==
    \A i, j, k \in 1..Len(produced) :
        (i < j /\ j < k) =>
            \A c \in 1..calls :
                ((\E n \in DOMAIN produced[i].path : produced[i].path[n] = c)
                    /\ (\E n \in DOMAIN produced[k].path : produced[k].path[n] = c))
                => \E n \in DOMAIN produced[j].path : produced[j].path[n] = c

\* runConcat has written the fragments before its position, each once, in
\* list order (a failed write may have left a part of the next one).
RenderedInOrder ==
    /\ pc \in {"render", "done"} =>
          written = [i \in 1..(renderIdx - 1) |-> renderItem(itemsToConcat[i])]
    /\ pc = "done" => Len(written) = Len(itemsToConcat)

\* A step of the walk leaves the list as it is or appends one fragment.
AppendOnly ==
    pc = "walk" =>
        \/ itemsToConcat' = itemsToConcat
        \/ /\ Len(itemsToConcat') = Len(itemsToConcat) + 1
           /\ SubSeq(itemsToConcat', 1, Len(itemsToConcat)) = itemsToConcat

\* C12: during the walk the fragment list only grows at its end; it holds the
\* fragments of the executed concat, print, emit and text-block directives in
\* the order of execution, those of an included file contiguous between what
\* the includer produced before and after the `include`; runConcat writes
\* each fragment once, in list order.
C12_FragmentsInExecutionOrder ==
    /\ [](InExecutionOrder /\ IncludesContiguous /\ RenderedInOrder)
    /\ [][AppendOnly]_vars

\* A successful run wrote three fragments: one the top-level file produced,
\* the `concat` of an included file, and one the top-level file produced
\* after the `include`.
C12_Witness ==
    /\ pc = "done"
    /\ Len(written) = 3
    /\ produced[1].path = <<1>>
    /\ produced[2].path = <<1, 2>> /\ produced[2].kind = "concat"
    /\ produced[3].path = <<1>>

----------------------------------------------------------------------------
(* The deferred substitution, checked under SpecDefer: fragments that      *)
(* refer to K, and assignments of K and J before and after them.           *)

MaxLinesDefer == 4

DeferLines ==
    { Ln("emit", <<"$", "{", "K", "}">>), Ln("print", <<"K">>),
      Ln("concat", <<"$", "{", "K", "}">>),
      <<"text-begin">>, <<"$", "{", "K", "}">>, <<"text-end">>,
      Ln("set", <<"K", "=", "a">>), Ln("set", <<"K", "=", "b">>),
      Ln("set", <<"K", "=", "$", "{", "J", "}">>), Ln("set", <<"J", "=", "c">>),
      Ln("include", <<"g">>) }

InitDefer == InitRun(<<>>, <<>>, <<>>, MaxLinesDefer)

NextDefer ==
    \/ \E l \in DeferLines : ReadLine(l)
    \/ EndOfFile
    \/ SubstituteItem
    \/ SubstituteOutput
    \/ ChooseOutput
    \/ WriteItem
    \/ Finish

SpecDefer == InitDefer /\ [][NextDefer]_vars

\* The results substituteParams can give for s against the store.
Substitutions(s) ==
    {substituteParams(s, parameters, o) : o \in Orders(DOMAIN parameters)}

\* main's substitution pass is over.
Substituted == pc \in {"ready", "render", "done"}

\* C13: while the tree is walked every fragment holds the text its directive
\* appended, placeholders included; once the walk and main's pass are over,
\* every fragment holds that text substituted against the final store,
\* whatever the store was when the fragment was appended: a fragment ${K} is
\* the final value of K (when that value holds no placeholder of its own).
C13_SubstitutedAgainstFinalStore ==
    /\ Len(itemsToConcat) = Len(produced)
    /\ pc = "walk" =>
          \A i \in 1..Len(produced) : itemsToConcat[i].Value = FragmentOf(produced[i]).Value
    /\ Substituted =>
          \A i \in 1..Len(produced) :
              /\ itemsToConcat[i].Value \in Substitutions(FragmentOf(produced[i]).Value)
              /\ (/\ FragmentOf(produced[i]).Value = Placeholder(K)
                  /\ K \in DOMAIN parameters
                  /\ ~Contains(parameters[K], <<"$">>))
                 => itemsToConcat[i].Value = parameters[K]

\* `emit ${K}` was executed by the top-level file while K was a; a file
\* included afterwards was walked, K ended as b, and the fragment holds b.
C13_Witness ==
    /\ Substituted
    /\ Len(produced) = 1
    /\ produced[1].kind = "emit" /\ produced[1].args = <<"$", "{", "K", "}">>
    /\ produced[1].path = <<1>>
    /\ produced[1].store = (<<"K">> :> <<"a">>)
    /\ calls = 2
    /\ parameters = (<<"K">> :> <<"b">>)
    /\ itemsToConcat[1].Value = <<"b">>

----------------------------------------------------------------------------
(* The values `set` and `param` store, checked under SpecEager.            *)

MaxLinesEager == 4

EagerLines ==
    { Ln("set", <<"B", "=", "b">>), Ln("set", <<"B", "=", "w">>),
      Ln("set", <<"A", "=", "$", "{", "B", "}">>),
      Ln("param", <<"A", "=", "<", "$", "{", "B", "}", ">">>),
      Ln("param", <<"B", "=", "p">>),
      Ln("emit", <<"$", "{", "A", "}">>), Ln("include", <<"g">>) }

InitEager == InitRun(<<>>, <<>>, <<>>, MaxLinesEager)

NextEager ==
    \/ \E l \in EagerLines : ReadLine(l)
    \/ EndOfFile
    \/ SubstituteItem
    \/ SubstituteOutput
    \/ ChooseOutput
    \/ WriteItem
    \/ Finish

SpecEager == InitEager /\ [][NextEager]_vars

\* The step executes a well-formed `set` or `param`.
Assigns == pc = "walk" /\ pc' = "walk" /\ last'.via \in {"set", "param"}

AssignedKey == SplitN2(last'.args, <<"=">>)[1]

AssignedText == SplitN2(last'.args, <<"=">>)[2]

\* The directive of the step stores a value: a `set` of a name that is not
\* locked, a `param` of a name that has no value.
Effective ==
    IF last'.via = "set" THEN AssignedKey \notin cliParamsSet
    ELSE AssignedKey \notin DOMAIN parameters

\* The value stored is the text substituted against the store the step
\* starts from, and no other name's value changes.
EagerStep ==
    Assigns =>
        /\ Effective => /\ AssignedKey \in DOMAIN parameters'
                        /\ parameters'[AssignedKey] \in Substitutions(AssignedText)
        /\ \A a \in DOMAIN parameters :
              a # AssignedKey => (a \in DOMAIN parameters' /\ parameters'[a] = parameters[a])

\* C14: an executed `set` (or an effective `param`) stores its value
\* substituted against the store of that moment, and an assignment of one
\* name never changes the value stored for another: after `set A=${B}` with
\* B defined, a later `set B=w` leaves A as it was.
C14_EagerValues == [][EagerStep]_vars

\* `set A=${B}` stored b while B was b, and `set B=w` was then executed: A
\* is still b.
C14_Witness ==
    /\ last.via = "set" /\ last.args = <<"B", "=", "w">>
    /\ <<"A">> \in DOMAIN parameters
    /\ parameters[<<"A">>] = <<"b">>
    /\ parameters[<<"B">>] = <<"w">>
    /\ DefOf(defs, <<"A">>).lastSet = <<"b">>

----------------------------------------------------------------------------
(* `print` of a name without a value, checked under SpecDefer, where K has *)
(* a value in some runs and none in others.                                *)

\* The i-th fragment comes from a `print` whose name has no value in the
\* final store.
PrintOfMissing(i) ==
    produced[i].kind = "print" /\ produced[i].args \notin DOMAIN parameters

\* C15: a run that executed a `print` of a name with no value at the final
\* substitution fails: it does not end successfully, and nothing is written
\* for that fragment.
C15_PrintOfMissingFails ==
    /\ pc = "done" => \A i \in 1..Len(produced) : ~PrintOfMissing(i)
    /\ \A i \in 1..Len(written) : ~PrintOfMissing(i)

----------------------------------------------------------------------------
(* Substitution of present and absent names, checked under SpecSubst: K    *)
(* has a value in some runs, J, A and B get one in some files.             *)

MaxLinesSubst == 4

SubstLines ==
    { Ln("emit", <<"$", "{", "K", "}", "-", "$", "{", "J", "}">>),
      Ln("emit", <<"$", "{", "K", "}", "$", "{", "K", "}">>),
      Ln("concat", <<"$", "{", "K", "}", "$", "{", "A", "}">>),
      <<"text-begin">>, <<"$", "{", "J", "}", "$", "{", "B", "}">>, <<"text-end">>,
      Ln("set", <<"A", "=", "$", "{", "K", "}", "$", "{", "K", "}", "$", "{", "J", "}">>),
      Ln("param", <<"B", "=", "$", "{", "J", "}", "$", "{", "K", "}">>),
      Ln("set", <<"J", "=", "c">>),
      Ln("set", <<"K", "=", "$", "{", "J", "}">>) }

SubstNames == { <<"K">>, <<"J">>, <<"A">>, <<"B">> }

InitSubst ==
    \E ps \in { <<>>, << <<"K", "=", "v">> >> } : InitRun(<<>>, ps, <<>>, MaxLinesSubst)

NextSubst ==
    \/ \E l \in SubstLines : ReadLine(l)
    \/ EndOfFile
    \/ SubstituteItem
    \/ SubstituteOutput
    \/ ChooseOutput
    \/ WriteItem
    \/ Finish

SpecSubst == InitSubst /\ [][NextSubst]_vars

\* The names of m whose placeholder s begins with.
PlaceholdersAt(s, m) == {k \in DOMAIN m : HasPrefix(s, Placeholder(k))}

\* s read once from left to right: every placeholder of a name of m is
\* replaced by the value of the name, everything else is kept.
RECURSIVE ReplacedOnce(_, _)
RECURSIVE ReplacedAt(_, _, _)
ReplacedAt(s, m, hits) ==
    IF hits = {} THEN <<Head(s)>> \o ReplacedOnce(Tail(s), m)
    ELSE m[CHOOSE k \in hits : TRUE]
         \o ReplacedOnce(SubSeq(s, Len(Placeholder(CHOOSE k \in hits : TRUE)) + 1, Len(s)), m)

ReplacedOnce(s, m) == IF s = <<>> THEN <<>> ELSE ReplacedAt(s, m, PlaceholdersAt(s, m))

\* The number of places where sep occurs in s.
Count(s, sep) ==
    Cardinality({i \in 1..(Len(s) - Len(sep) + 1) : SubSeq(s, i, i + Len(sep) - 1) = sep})

\* No value of the store holds a placeholder of its own.
PlainValues == \A k \in DOMAIN parameters : ~Contains(parameters[k], <<"$">>)

\* result is text substituted against store m: every placeholder of a name
\* without a value is still there, and (plain: no value of m holds a
\* placeholder) result is the text with the placeholders of the names of m
\* replaced by their values.
SubstitutedAs(text, result, m, plain) ==
    /\ \A k \in SubstNames \ DOMAIN m :
          Count(result, Placeholder(k)) >= Count(text, Placeholder(k))
    /\ plain => result = ReplacedOnce(text, m)

\* Every fragment is its text substituted against the final store.
FragmentsSubstituted ==
    Substituted =>
        \A i \in 1..Len(produced) :
            SubstitutedAs(FragmentOf(produced[i]).Value, itemsToConcat[i].Value,
                          parameters, PlainValues)

\* The only errors of these runs are those of the output's I/O and that of
\* a text line or a `text-end` met outside a text block, which is read as a
\* command.
NoSubstitutionError ==
    pc = "error" => err \in {"error creating output file", "error opening file",
                             "error copying from", "error writing text to output",
                             "unknown command"}

\* A `set` or `param` that stores a value stores its text substituted
\* against the store of that moment.
ValueSubstituted ==
    (Assigns /\ Effective) =>
        SubstitutedAs(AssignedText, parameters'[AssignedKey], parameters, PlainValues)

\* C16: substitution raises no error; in emit text, text-block lines, concat
\* paths and the values of set and param, every ${KEY} whose KEY has no
\* value is left as it is and every ${KEY} whose KEY has a value is replaced
\* by that value.
C16_SubstitutionNeverFails ==
    /\ [](FragmentsSubstituted /\ NoSubstitutionError)
    /\ [][ValueSubstituted]_vars

\* K is v and J has no value: the first `emit` of the pool ended as v-${J}.
C16_Witness ==
    /\ Substituted
    /\ parameters = (<<"K">> :> <<"v">>)
    /\ Len(produced) >= 1
    /\ produced[1].kind = "emit"
    /\ produced[1].args = <<"$", "{", "K", "}", "-", "$", "{", "J", "}">>
    /\ itemsToConcat[1].Value = <<"v", "-", "$", "{", "J", "}">>

----------------------------------------------------------------------------
(* Conditionals across files, checked under SpecNest: A is 1, B has no     *)
(* value, g is a file `include` opens.                                     *)

MaxLinesNest == 5

NestLines ==
    { Ln("if", <<"A", "=", "1">>), Ln("if", <<"B", "=", "1">>),
      <<"else">>, <<"endif">>, Ln("emit", <<"x">>), Ln("include", <<"g">>) }

InitNest == InitWith(<<>>, << <<"A", "=", "1">> >>, MaxLinesNest)

NextNest ==
    \/ \E l \in NestLines : ReadLine(l)
    \/ EndOfFile
    \/ SubstituteItem
    \/ SubstituteOutput
    \/ ChooseOutput
    \/ WriteItem
    \/ Finish

SpecNest == InitNest /\ [][NextNest]_vars

\* Nothing of the output exists: no file was created, no byte written, no
\* success announced.
NoOutput == ~created /\ written = <<>> /\ ~announced

\* The step reaches the end of a file whose conditional stack is not empty.
EndsUnclosed == pc = "walk" /\ last'.via = "eof" /\ Len(Top.ifStk) > 0

\* The run has failed on an unclosed conditional.
FailedUnclosed == pc = "error" /\ err = "unclosed if block(s)"

UnclosedStep == EndsUnclosed => FailedUnclosed'

\* C17: the end of any file, top-level or included, reached with a
\* non-empty conditional stack fails the run with "unclosed if block(s)";
\* no output file is created and nothing is written.
C17_UnclosedIfFails ==
    /\ [][UnclosedStep]_vars
    /\ [](FailedUnclosed => NoOutput)

\* An included file ended with its `if` open, after a fragment was appended.
C17_Witness ==
    /\ FailedUnclosed
    /\ last.via = "eof"
    /\ last.depth = 2
    /\ Len(stack) = 2
    /\ Len(stack[2].ifStk) = 1
    /\ stack[1].ifStk = <<>>
    /\ Len(itemsToConcat) = 1
    /\ NoOutput

----------------------------------------------------------------------------
(* The conditional stack of each file is its own, checked under SpecNest.  *)

\* The step reads an `else` or an `endif` that reaches
\* handleConditionalCommand.
ReadsElseOrEndif ==
    /\ pc = "walk"
    /\ last'.via = "conditional"
    /\ last'.command \in {<<"else">>, <<"endif">>}

\* The error of an `else` or `endif` met with an empty stack.
Dangling(command) ==
    IF command = <<"else">> THEN "else without a preceding if"
    ELSE "endif without a preceding if"

\* An `else` or `endif` read while the stack of the file being walked is
\* empty aborts the run, whatever the stacks of the including files hold.
DanglingStep ==
    (ReadsElseOrEndif /\ Top.ifStk = <<>>) =>
        /\ pc' = "error"
        /\ err' = Dangling(last'.command)
        /\ stack' = stack

\* No step changes the conditional stack or the suppression of a file
\* that is waiting for an included file to end.
IncluderUntouched ==
    \A i \in 1..(Len(stack) - 1) :
        i <= Len(stack') => /\ stack'[i].ifStk = stack[i].ifStk
                            /\ stack'[i].skip = stack[i].skip

\* A file that is entered starts with an empty stack, not suppressed.
StartsEmpty ==
    Len(stack') > Len(stack) =>
        /\ stack'[Len(stack')].ifStk = <<>>
        /\ ~stack'[Len(stack')].skip

\* The walk goes back to the including file only from a file whose stack
\* is empty.
ReturnsClosed == Len(stack') < Len(stack) => Top.ifStk = <<>>

\* C18: an `else` or `endif` met while the stack of its own file is empty
\* aborts the run with the dangling else/endif error even when the
\* including file has an open `if`; an `endif` of an included file never
\* pops a frame of the includer, and an `if` left open in an included file
\* is never closed by an `endif` of the includer.
C18_NestingPerFile ==
    [][DanglingStep /\ IncluderUntouched /\ StartsEmpty /\ ReturnsClosed]_vars

\* An included file began with `endif` while its includer had an `if` open.
C18_Witness ==
    /\ pc = "error"
    /\ err = "endif without a preceding if"
    /\ last.command = <<"endif">>
    /\ last.depth = 2
    /\ Len(stack) = 2
    /\ stack[1].ifStk = <<TRUE>>
    /\ stack[2].ifStk = <<>>
    /\ NoOutput

----------------------------------------------------------------------------
(* Unknown keywords, checked under SpecPrefix.                              *)

\* The keywords dispatchCommand has a case for.
Recognized ==
    { <<"if">>, <<"else">>, <<"endif">>, <<"set-prefix">>, <<"clear-prefix">>,
      <<"output">>, <<"concat">>, <<"include">>, <<"param">>, <<"set">>,
      <<"print">>, <<"emit">>, <<"text-begin">>, <<"text-end">> }

\* The keyword of a line read while currentPrefix is active (or none is).
KeywordOf(line, currentPrefix) ==
    SplitN2(IF currentPrefix # <<>> /\ HasPrefix(line, currentPrefix \o <<":">>)
            THEN TrimPrefix(line, currentPrefix \o <<":">>)
            ELSE line, <<" ">>)[1]

\* The step reads, outside a text block, a line that is not blank and not a
\* comment, that the prefix guard does not drop and that is not suppressed.
ReachesSwitch ==
    /\ pc = "walk"
    /\ ~Top.inTextBlock
    /\ last'.line # <<>>
    /\ ~HasPrefix(last'.line, <<"#">>)
    /\ Top.currentPrefix = <<>> \/ HasPrefix(last'.line, Top.currentPrefix \o <<":">>)
    /\ ~Top.skip

UnknownStep ==
    (ReachesSwitch /\ KeywordOf(last'.line, Top.currentPrefix) \notin Recognized) =>
        /\ pc' = "error"
        /\ err' = "unknown command"
        /\ errArg' = KeywordOf(last'.line, Top.currentPrefix)
        /\ itemsToConcat' = itemsToConcat
        /\ parameters' = parameters

FailedUnknown == pc = "error" /\ err = "unknown command"

\* C19: a line whose keyword is not a recognized directive, read while not
\* suppressed and not dropped by the prefix guard, aborts the run with the
\* error "unknown command" naming the keyword, in the top-level file and in
\* an included one; nothing of the output is produced.
C19_UnknownCommandAborts ==
    /\ [][UnknownStep]_vars
    /\ [](FailedUnknown => NoOutput)

\* An included file held the line `bogus x`.
C19_Witness ==
    /\ FailedUnknown
    /\ errArg = <<"bogus">>
    /\ last.line = Ln("bogus", <<"x">>)
    /\ last.depth = 2
    /\ Len(stack) = 2
    /\ NoOutput

----------------------------------------------------------------------------
(* Malformed `set` and `param`, checked under SpecFormat: B has no value,  *)
(* g is a file `include` opens.                                            *)

MaxLinesFormat == 4

FormatLines ==
    { Ln("set", <<"K", "=", "a">>), Ln("set", <<"K">>), <<"set">>,
      Ln("param", <<"J", "=", "b">>), Ln("param", <<"J">>), Ln("param", <<"K", "a">>),
      Ln("if", <<"B", "=", "1">>), <<"endif">>,
      Ln("include", <<"g">>), Ln("emit", <<"$", "{", "K", "}">>) }

InitFormat == InitWith(<<>>, <<>>, MaxLinesFormat)

NextFormat ==
    \/ \E l \in FormatLines : ReadLine(l)
    \/ EndOfFile
    \/ SubstituteItem
    \/ SubstituteOutput
    \/ ChooseOutput
    \/ WriteItem
    \/ Finish

SpecFormat == InitFormat /\ [][NextFormat]_vars

\* What follows the keyword of a line and the space after it.
RemainderOf(parts) == IF Len(parts) > 1 THEN parts[2] ELSE <<>>

ArgsOf(line, currentPrefix) ==
    RemainderOf(SplitN2(IF currentPrefix # <<>> /\ HasPrefix(line, currentPrefix \o <<":">>)
                        THEN TrimPrefix(line, currentPrefix \o <<":">>)
                        ELSE line, <<" ">>))

\* The step executes a `set` or a `param` whose remainder holds no "=".
ExecutesMalformed ==
    /\ ReachesSwitch
    /\ KeywordOf(last'.line, Top.currentPrefix) \in {<<"set">>, <<"param">>}
    /\ ~Contains(ArgsOf(last'.line, Top.currentPrefix), <<"=">>)

FormatError(command) ==
    IF command = <<"set">> THEN "invalid set command format"
    ELSE "invalid param command format"

MalformedStep ==
    ExecutesMalformed =>
        /\ pc' = "error"
        /\ err' = FormatError(KeywordOf(last'.line, Top.currentPrefix))
        /\ errArg' = ArgsOf(last'.line, Top.currentPrefix)
        /\ parameters' = parameters

\* C20: an executed `param` or `set` whose remainder holds no "=" fails
\* with the error "invalid param command format" or "invalid set command
\* format", and leaves the parameter store as it was.
C20_MalformedAssignmentFails == [][MalformedStep]_vars

\* `set K` was executed after K got the value a: the run failed and K is
\* still a.
C20_Witness ==
    /\ pc = "error"
    /\ err = "invalid set command format"
    /\ errArg = <<"K">>
    /\ last.line = Ln("set", <<"K">>)
    /\ parameters = (<<"K">> :> <<"a">>)

----------------------------------------------------------------------------
(* Conditions of `if`, checked under SpecCompare: N is a number in some    *)
(* runs and a word in others, U never has a value.                         *)

MaxLinesCompare == 2

\* The condition `key op value` as it is written.
Cond(key, op, value) == key \o op \o value

Relational == { <<">", "=">>, <<"<", "=">>, <<">">>, <<"<">> }

\* Texts that are no number.
Words == { <<"a", "b", "c">>, <<>>, <<"1", "a">>, <<"-">> }

\* Texts that are a number.
Numerals == { <<"9">>, <<"1", "0">>, <<"-", "1">> }

\* Condition texts that hold none of the operators.
Operatorless == { <<"N">>, <<"U">>, <<>>, <<"N", " ", "1", "0">> }

\* The conditions of the pool, as the key, the operator and the value they
\* are written with.
CompareConds ==
    [key : {<<"N">>, <<"U">>}, op : Relational \cup {<<"=">>}, value : Words \cup Numerals]

CompareLines ==
    {Ln("if", Cond(c.key, c.op, c.value)) : c \in CompareConds}
    \cup {Ln("if", t) : t \in Operatorless \ {<<>>}}
    \cup { <<"if">>, <<"endif">>, Ln("emit", <<"x">>) }

InitCompare ==
    \E v \in {<<"1", "0">>, <<"a", "b", "c">>, <<>>} :
        InitWith(<<>>, << <<"N", "=">> \o v >>, MaxLinesCompare)

NextCompare ==
    \/ \E l \in CompareLines : ReadLine(l)
    \/ EndOfFile
    \/ SubstituteItem
    \/ SubstituteOutput
    \/ ChooseOutput
    \/ WriteItem
    \/ Finish

SpecCompare == InitCompare /\ [][NextCompare]_vars

\* The step reads `if condition` where it is not suppressed.
EvaluatesIf(condition) ==
    /\ pc = "walk"
    /\ ~Top.inTextBlock
    /\ ~Top.skip
    /\ Top.currentPrefix = <<>>
    /\ last'.line = (IF condition = <<>> THEN <<"if">> ELSE Ln("if", condition))

\* The `if` of the step pushed val: no error, and what follows is executed
\* exactly when val is true.
Pushed(val) ==
    /\ pc' = "walk"
    /\ err' = ""
    /\ stack'[Len(stack)].ifStk = Append(Top.ifStk, val)
    /\ stack'[Len(stack)].skip = ~val

\* The `if` of the step aborted the run on the format of its condition.
FormatAbort(condition) ==
    /\ pc' = "error"
    /\ err' = "invalid condition format"
    /\ errArg' = condition
    /\ stack' = stack

MissingKeyStep ==
    \A c \in CompareConds :
        (EvaluatesIf(Cond(c.key, c.op, c.value)) /\ c.key \notin DOMAIN parameters)
            => Pushed(FALSE)

NotANumberStep ==
    \A c \in CompareConds :
        (/\ EvaluatesIf(Cond(c.key, c.op, c.value))
         /\ c.op \in Relational
         /\ c.key \in DOMAIN parameters
         /\ c.value \in Words \/ parameters[c.key] \in Words)
            => Pushed(FALSE)

NoOperatorStep ==
    \A t \in Operatorless : EvaluatesIf(t) => FormatAbort(t)

\* C21: an unsuppressed `if` whose KEY has no value is false without error;
\* one with a relational operator and an operand that is no number is false
\* without error; one whose condition holds none of >=, <=, =, >, < aborts
\* the run with the error "invalid condition format".
C21_ConditionEdgeCases == [][MissingKeyStep /\ NotANumberStep /\ NoOperatorStep]_vars

\* N is 10 and `if N>=abc` was read: suppressed, no error.
C21_Witness ==
    /\ pc = "walk"
    /\ err = ""
    /\ parameters = (<<"N">> :> <<"1", "0">>)
    /\ last.line = Ln("if", <<"N", ">", "=", "a", "b", "c">>)
    /\ Top.ifStk = <<FALSE>>
    /\ Top.skip

----------------------------------------------------------------------------
(* Relational conditions on integers, checked under SpecNumeric: N is 10   *)
(* in some runs and 2^53 + 1 in others.                                    *)

MaxLinesNumeric == 3

\* 2^53, the integer before it is not needed, and the two after it.
Pow53 == <<"9", "0", "0", "7", "1", "9", "9", "2", "5", "4", "7", "4", "0", "9", "9", "2">>

Pow53Plus1 == <<"9", "0", "0", "7", "1", "9", "9", "2", "5", "4", "7", "4", "0", "9", "9", "3">>

Pow53Plus2 == <<"9", "0", "0", "7", "1", "9", "9", "2", "5", "4", "7", "4", "0", "9", "9", "4">>

\* The conditions of the pool: N against an integer.
NumericConds ==
    [key : {<<"N">>}, op : Relational,
     value : {<<"9">>, <<"1", "0">>, <<"-", "1">>, Pow53, Pow53Plus2}]

NumericLines ==
    {Ln("if", Cond(c.key, c.op, c.value)) : c \in NumericConds}
    \cup { <<"else">>, <<"endif">>, Ln("emit", <<"x">>) }

InitNumeric ==
    \E v \in {<<"1", "0">>, Pow53Plus1} :
        InitWith(<<>>, << <<"N", "=">> \o v >>, MaxLinesNumeric)

NextNumeric ==
    \/ \E l \in NumericLines : ReadLine(l)
    \/ EndOfFile
    \/ SubstituteItem
    \/ SubstituteOutput
    \/ ChooseOutput
    \/ WriteItem
    \/ Finish

SpecNumeric == InitNumeric /\ [][NextNumeric]_vars

\* The sign and the decimal digits of the text of an integer.
IntNeg(t) == Head(t) = "-"

IntDigits(t) == StripZeros(DigitsOf(IF Head(t) \in {"+", "-"} THEN Tail(t) ELSE t))

IntSignum(t) == IF IntDigits(t) = <<>> THEN 0 ELSE IF IntNeg(t) THEN 0 - 1 ELSE 1

\* n < m for the integers the texts n and m stand for, digit by digit.
IntLess(n, m) ==
    \/ IntSignum(n) < IntSignum(m)
    \/ IntSignum(n) = 1 /\ IntSignum(m) = 1 /\ MagLess(IntDigits(n), IntDigits(m))
    \/ IntSignum(n) = 0 - 1 /\ IntSignum(m) = 0 - 1 /\ MagLess(IntDigits(m), IntDigits(n))

\* n op m for the integers the texts n and m stand for.
IntHolds(n, op, m) ==
    CASE op = <<">">> -> IntLess(m, n)
      [] op = <<">", "=">> -> ~IntLess(n, m)
      [] op = <<"<">> -> IntLess(n, m)
      [] op = <<"<", "=">> -> ~IntLess(m, n)

IntegerStep ==
    \A c \in NumericConds :
        EvaluatesIf(Cond(c.key, c.op, c.value))
            => Pushed(IntHolds(parameters[c.key], c.op, c.value))

\* C22: for a defined KEY whose value n and a literal m are integers,
\* `if KEY>=m` is true iff n >= m, `KEY<=m` iff n <= m, `KEY>m` iff n > m
\* and `KEY<m` iff n < m, and a two-character operator is never read as its
\* first character or as `=`.
C22_IntegerComparison == [][IntegerStep]_vars

----------------------------------------------------------------------------
(* Conditions of equality, checked under SpecEqual: K has one of the       *)
(* literals as its value, U never has a value.                             *)

MaxLinesEqual == 3

\* Literals over an alphabet with "=", ">" and "<".
Literals ==
    { <<"a">>, <<"a", ">", "b">>, <<"a", "=", "b">>, <<"<", "a">>,
      <<"a", ">", "=", "b">>, <<"a", "<", "=", "b">>, <<>> }

\* The literals that hold no two-character operator.
PlainLiterals == {v \in Literals : ~Contains(v, <<">", "=">>) /\ ~Contains(v, <<"<", "=">>)}

EqualConds == [key : {<<"K">>, <<"U">>}, op : {<<"=">>}, value : Literals]

EqualLines ==
    {Ln("if", Cond(c.key, c.op, c.value)) : c \in EqualConds}
    \cup { <<"else">>, <<"endif">>, Ln("emit", <<"x">>) }

InitEqual ==
    \E v \in {<<"a">>, <<"a", ">", "b">>, <<"a", ">", "=", "b">>, <<>>} :
        InitWith(<<>>, << <<"K", "=">> \o v >>, MaxLinesEqual)

NextEqual ==
    \/ \E l \in EqualLines : ReadLine(l)
    \/ EndOfFile
    \/ SubstituteItem
    \/ SubstituteOutput
    \/ ChooseOutput
    \/ WriteItem
    \/ Finish

SpecEqual == InitEqual /\ [][NextEqual]_vars

\* The `if` of a condition of equality pushes whether the key has the
\* literal as its value.
EqualStep(c) ==
    EvaluatesIf(Cond(c.key, c.op, c.value))
        => Pushed(c.key \in DOMAIN parameters /\ parameters[c.key] = c.value)

\* C23: a condition written `K=V` is true exactly when K is defined and its
\* value equals the literal V character for character, for every literal V
\* over an alphabet with "=", ">" and "<", also when V holds `>=` or `<=`.
C23_EqualityIsExact == [][\A c \in EqualConds : EqualStep(c)]_vars

\* The same for the literals that hold neither `>=` nor `<=`.
EqualityOfPlainLiterals ==
    [][\A c \in EqualConds : c.value \in PlainLiterals => EqualStep(c)]_vars

----------------------------------------------------------------------------
(* What `emit` writes, checked under SpecEmit: K gets a value in some      *)
(* files.                                                                  *)

MaxLinesEmit == 3

EmitLines ==
    { Ln("emit", <<"A", "@", "@", "n", "B">>),
      Ln("emit", <<"$", "{", "K", "}", "@", "@", "s", "$", "{", "K", "}">>),
      Ln("emit", <<"@", "@", "@", "t", "@", "@", "r", "@", "@">>),
      Ln("emit", <<"@", "@", "$", "{", "K", "}">>),
      <<"emit">>,
      Ln("set", <<"K", "=", "n">>),
      Ln("set", <<"K", "=", "v", "@", "@", "n">>) }

InitEmit == InitWith(<<>>, <<>>, MaxLinesEmit)

NextEmit ==
    \/ \E l \in EmitLines : ReadLine(l)
    \/ EndOfFile
    \/ SubstituteItem
    \/ SubstituteOutput
    \/ ChooseOutput
    \/ WriteItem
    \/ Finish

SpecEmit == InitEmit /\ [][NextEmit]_vars

\* The character an escape sequence stands for.
Escapes ==
    (<<"@", "@", "n">> :> "\n") @@ (<<"@", "@", "r">> :> "\r")
    @@ (<<"@", "@", "t">> :> "\t") @@ (<<"@", "@", "s">> :> " ")

\* s read once from left to right, every escape sequence replaced by its
\* character.
RECURSIVE Decoded(_)
Decoded(s) ==
    IF Len(s) >= 3 /\ SubSeq(s, 1, 3) \in DOMAIN Escapes
    THEN <<Escapes[SubSeq(s, 1, 3)]>> \o Decoded(SubSeq(s, 4, Len(s)))
    ELSE IF s = <<>> THEN <<>>
    ELSE <<Head(s)>> \o Decoded(Tail(s))

\* The chunk written for the i-th fragment is complete.
Written(i) == i <= Len(written) /\ ~written[i].partial

\* C24: what is written for an executed `emit T` is exactly T after the
\* substitution against the final store followed by the decoding of @@n,
\* @@r, @@t and @@s, with no line terminator appended; `emit A@@nB` writes
\* A, line feed, B.
C24_EmitWritesDecodedText ==
    \A i \in 1..Len(produced) :
        (produced[i].kind = "emit" /\ Written(i) /\ PlainValues) =>
            written[i] = [IsFile |-> FALSE,
                          Value |-> Decoded(ReplacedOnce(produced[i].args, parameters)),
                          partial |-> FALSE]

\* `emit A@@nB` was written as A, line feed, B, and after `set K=n` the text
\* @@${K} as a line feed.
C24_Witness ==
    /\ pc = "done"
    /\ Len(written) = 2
    /\ produced[1].args = <<"A", "@", "@", "n", "B">>
    /\ written[1].Value = <<"A", "\n", "B">>
    /\ produced[2].args = <<"@", "@", "$", "{", "K", "}">>
    /\ written[2].Value = <<"\n">>

----------------------------------------------------------------------------
(* Text blocks, checked under SpecText: the prefix p is active in some     *)
(* files.                                                                  *)

MaxLinesText == 4

\* Lines as the scanner yields them, some with blanks around them.
TextLines ==
    { <<"text-begin">>, Pre(<<"text-begin">>), Ln("set-prefix", <<"p">>),
      <<"text-end">>, Pre(<<"text-end">>), <<" ", "text-end", " ">>,
      Ln("if", <<"B", "=", "1">>), <<"endif">>, <<"#", "c">>, <<>>,
      <<" ", "x", " ">>, Ln("emit", <<"x">>), Pre(Ln("emit", <<"x">>)) }

InitText == InitWith(<<>>, <<>>, MaxLinesText)

NextText ==
    \/ \E l \in TextLines : ReadLine(l)
    \/ EndOfFile
    \/ SubstituteItem
    \/ SubstituteOutput
    \/ ChooseOutput
    \/ WriteItem
    \/ Finish

SpecText == InitText /\ [][NextText]_vars

\* The step reads the line l inside a text block.
ReadsInBlock(l) ==
    /\ pc = "walk"
    /\ Top.inTextBlock
    /\ budget' = budget - 1
    /\ last'.line = l

\* The step leaves everything but the block buffer as it was: no
\* fragment, no parameter, no output path, no conditional frame, no prefix,
\* no error.
OnlyBuffered(l) ==
    /\ stack' = [stack EXCEPT ![Len(stack)].textBlock = @ \o l \o <<"\n">>]
    /\ itemsToConcat' = itemsToConcat
    /\ parameters' = parameters
    /\ dslOutputFile' = dslOutputFile
    /\ pc' = "walk"
    /\ err' = ""

\* The step ends the block: one literal-text fragment with the buffer.
BlockClosed ==
    /\ itemsToConcat' = Append(itemsToConcat, ConcatItem(FALSE, Top.textBlock, <<>>))
    /\ stack' = [stack EXCEPT ![Len(stack)].textBlock = <<>>,
                              ![Len(stack)].inTextBlock = FALSE]
    /\ parameters' = parameters
    /\ dslOutputFile' = dslOutputFile
    /\ pc' = "walk"
    /\ err' = ""

\* An executed `text-begin` starts a block with an empty buffer.
BlockOpened ==
    (pc = "walk" /\ last'.via = "text-begin") =>
        /\ stack'[Len(stack)].inTextBlock
        /\ stack'[Len(stack)].textBlock = <<>>
        /\ itemsToConcat' = itemsToConcat

\* The line trims to `text-end`.
TrimsToEnd(l) == TrimSpace(l) = <<"text-end">>

\* The line trims to `text-end` behind the prefix that is active.
TrimsToPrefixedEnd(l) ==
    Top.currentPrefix # <<>> /\ TrimSpace(l) = Top.currentPrefix \o <<":", "text-end">>

\* C25 as claimed: between an executed `text-begin` and the next line that
\* trims to `text-end` every line is appended unmodified, with a line feed,
\* to the block buffer and has no other effect; the line that trims to
\* `text-end` appends one literal-text fragment with the buffer.
C25_BlockLinesVerbatim ==
    [][/\ BlockOpened
       /\ \A l \in TextLines :
             ReadsInBlock(l) => IF TrimsToEnd(l) THEN BlockClosed ELSE OnlyBuffered(l)]_vars

\* C25: the same, where the block also ends at the line that trims to
\* `P:text-end` while the prefix P is active in the file.
C25_BlockLinesVerbatimUntilEnd ==
    [][/\ BlockOpened
       /\ \A l \in TextLines :
             ReadsInBlock(l) => IF TrimsToEnd(l) \/ TrimsToPrefixedEnd(l)
                                THEN BlockClosed ELSE OnlyBuffered(l)]_vars

\* A block held `if B=1`, a comment and a line with blanks around it, and
\* was closed: one fragment with the three lines as they were read.
C25_Witness ==
    /\ pc = "walk"
    /\ err = ""
    /\ last.via = "text-end"
    /\ Top.ifStk = <<>>
    /\ ~Top.inTextBlock
    /\ Len(itemsToConcat) = 1
    /\ \E a \in {Ln("if", <<"B", "=", "1">>)}, b \in {<<"#", "c">>, <<" ", "x", " ">>} :
          itemsToConcat[1] = ConcatItem(FALSE, a \o <<"\n">> \o b \o <<"\n">>, <<>>)

----------------------------------------------------------------------------
(* Placeholders in the path of `include`, checked under SpecInclude: K is  *)
(* g in some runs and gets a value in some files.                          *)

MaxLinesInclude == 3

IncludeLines ==
    { Ln("include", <<"$", "{", "K", "}">>), Ln("include", <<"d", "/", "$", "{", "K", "}">>),
      Ln("include", <<"g">>), Ln("set", <<"K", "=", "h">>), Ln("emit", <<"x">>) }

InitInclude ==
    \E ps \in { <<>>, << <<"K", "=", "g">> >> } : InitWith(<<>>, ps, MaxLinesInclude)

NextInclude ==
    \/ \E l \in IncludeLines : ReadLine(l)
    \/ EndOfFile
    \/ SubstituteItem
    \/ SubstituteOutput
    \/ ChooseOutput
    \/ WriteItem
    \/ Finish

SpecInclude == InitInclude /\ [][NextInclude]_vars

\* The step executes `include` with a path that holds ${K}, K having a value.
IncludesByParameter ==
    /\ ReachesSwitch
    /\ KeywordOf(last'.line, Top.currentPrefix) = <<"include">>
    /\ Contains(ArgsOf(last'.line, Top.currentPrefix), Placeholder(K))
    /\ K \in DOMAIN parameters
    /\ PlainValues

\* The path the step gave to os.Open: that of the file that is now walked,
\* or the one the error names.
PathOpened == IF Len(stack') > Len(stack) THEN stack'[Len(stack')].file ELSE errArg'

\* C26: an executed `include ...${K}...` with K defined opens the file named
\* by the path with ${K} replaced by the value of K.
C26_IncludePathSubstituted ==
    [][IncludesByParameter =>
          PathOpened = IncludePath(ReplacedOnce(ArgsOf(last'.line, Top.currentPrefix),
                                                parameters), Top.file)]_vars

----------------------------------------------------------------------------
(* Placeholders in the output path, checked under SpecTarget: --output is  *)
(* ${X} in some runs.                                                      *)

\* The path of the latest `output` directive, as it was written.
RecordedPath == outputs[Len(outputs)]

\* The target is one of the two sources, substituted against the final
\* store.
TargetSubstituted ==
    \/ outputs # <<>> /\ finalOutputFile = ReplacedOnce(RecordedPath, parameters)
    \/ finalOutputFile = ReplacedOnce(outputFlag, parameters)

\* C27 as claimed: the finally chosen output path is substituted once against
\* the final store, whether it was recorded by an `output` directive or
\* supplied by the caller.
C27_ChosenPathSubstituted == (TargetChosen /\ PlainValues) => TargetSubstituted

\* Once main's pass is over, the recorded path is the written one
\* substituted against the final store.
RecordedSubstituted ==
    (Substituted /\ outputs # <<>> /\ PlainValues) =>
        dslOutputFile = ReplacedOnce(RecordedPath, parameters)

\* The target is the recorded path as substituted or the caller's path as
\* given.
TargetFromSources ==
    TargetChosen => finalOutputFile = dslOutputFile \/ finalOutputFile = outputFlag

\* C27: after a successful traversal the path recorded by an `output`
\* directive is substituted once against the final store before the target
\* is chosen and opened; a path supplied by the caller is never
\* substituted: where it is the target, it is opened as given.
C27_RecordedPathSubstituted ==
    /\ [](RecordedSubstituted /\ TargetFromSources)
    /\ [][outputFlag' = outputFlag]_vars

\* --output ${X} with `set X=b` and `output ${X}`: the target is b; the
\* caller's path still holds the placeholder.
C27_Witness ==
    /\ pc = "done"
    /\ outputFlag = <<"$", "{", "X", "}">>
    /\ parameters = (<<"X">> :> <<"b">>)
    /\ outputs = << <<"$", "{", "X", "}">> >>
    /\ dslOutputFile = <<"b">>
    /\ finalOutputFile = <<"b">>
    /\ created

----------------------------------------------------------------------------
(* `if` while suppressed, checked under SpecCompare.                       *)

\* The step reads an `if` while the suppression flag is true.
ReadsIfSuppressed ==
    /\ pc = "walk"
    /\ ~Top.inTextBlock
    /\ Top.skip
    /\ Top.currentPrefix = <<>>
    /\ KeywordOf(last'.line, <<>>) = <<"if">>

\* C28: an `if` reached while suppressed pushes a false frame and stays
\* suppressed whatever its condition and whatever the store holds: no
\* error is raised, not even for a condition without operator.
C28_SuppressedIfNotEvaluated ==
    [][ReadsIfSuppressed =>
          /\ stack'[Len(stack)].ifStk = Append(Top.ifStk, FALSE)
          /\ stack'[Len(stack)].skip
          /\ Len(stack') = Len(stack)
          /\ pc' = "walk"
          /\ err' = ""
          /\ parameters' = parameters]_vars

\* `if N`, which has no operator, was read inside a false `if`.
C28_Witness ==
    /\ pc = "walk"
    /\ err = ""
    /\ last.line = Ln("if", <<"N">>)
    /\ last.skip
    /\ Top.ifStk = <<FALSE, FALSE>>
    /\ Top.skip

----------------------------------------------------------------------------
(* Suppressed lines, checked under SpecSkip: B has no value, so `if B=1`   *)
(* suppresses; g is a file `include` opens.                                *)

MaxLinesSkip == 4

SkipLines ==
    { Ln("if", <<"B", "=", "1">>), <<"else">>, <<"endif">>,
      Ln("include", <<"g">>), <<"text-begin">>, Ln("set", <<"K">>), <<"param">>,
      Ln("bogus", <<"x">>), Ln("emit", <<"x">>), Ln("output", <<"o">>),
      Ln("set", <<"K", "=", "a">>), Ln("concat", <<"f">>), Ln("print", <<"K">>),
      Ln("set-prefix", <<"p">>), Pre(Ln("bogus", <<"x">>)), Pre(Ln("include", <<"g">>)),
      Pre(<<"clear-prefix">>), Pre(<<"endif">>) }

InitSkip == InitWith(<<>>, <<>>, MaxLinesSkip)

NextSkip ==
    \/ \E l \in SkipLines : ReadLine(l)
    \/ EndOfFile
    \/ SubstituteItem
    \/ SubstituteOutput
    \/ ChooseOutput
    \/ WriteItem
    \/ Finish

SpecSkip == InitSkip /\ [][NextSkip]_vars

\* The step reads, while the suppression flag is true, a line whose command
\* is not `if`, `else`, `endif` or `set-prefix` and that is not the prefixed
\* `clear-prefix`.
ReadsSuppressed ==
    /\ pc = "walk"
    /\ ~Top.inTextBlock
    /\ Top.skip
    /\ budget' = budget - 1
    /\ KeywordOf(last'.line, Top.currentPrefix)
          \notin {<<"if">>, <<"else">>, <<"endif">>, <<"set-prefix">>}
    /\ ~(Top.currentPrefix # <<>>
         /\ last'.line = Top.currentPrefix \o <<":", "clear-prefix">>)

\* C29: while the suppression flag is true, a line whose command is not
\* `if`, `else`, `endif`, `set-prefix` or the prefixed `clear-prefix` leaves
\* the store, the fragments, the recorded output path, the conditional
\* stack and the text-block flag as they were and raises no error: also
\* `include` (no file is opened), `text-begin`, a malformed `param` or `set`
\* and an unknown keyword.
C29_SuppressedLineHasNoEffect ==
    [][ReadsSuppressed =>
          /\ parameters' = parameters
          /\ itemsToConcat' = itemsToConcat
          /\ dslOutputFile' = dslOutputFile
          /\ Len(stack') = Len(stack)
          /\ stack'[Len(stack)].ifStk = Top.ifStk
          /\ stack'[Len(stack)].skip
          /\ ~stack'[Len(stack)].inTextBlock
          /\ stack'[Len(stack)].currentPrefix = Top.currentPrefix
          /\ calls' = calls
          /\ pc' = "walk"
          /\ err' = ""]_vars

\* Inside a false `if`, `include g` and then `set K` were read: no file
\* entered, no error.
C29_Witness ==
    /\ pc = "walk"
    /\ err = ""
    /\ last.line = Ln("set", <<"K">>)
    /\ last.skip
    /\ budget = MaxLinesSkip - 3
    /\ Len(stack) = 1
    /\ calls = 1
    /\ Top.ifStk = <<FALSE>>
    /\ itemsToConcat = <<>>
    /\ parameters = EmptyMap

----------------------------------------------------------------------------
(* The prefix inside a suppressed branch, checked under SpecSkip.          *)

\* The step reads, while suppressed, a line the prefix guard lets through.
ReadsSuppressedLine ==
    /\ pc = "walk"
    /\ ~Top.inTextBlock
    /\ Top.skip
    /\ budget' = budget - 1
    /\ Top.currentPrefix = <<>> \/ HasPrefix(last'.line, Top.currentPrefix \o <<":">>)

\* A `set-prefix` read while suppressed sets the prefix of the file.
SuppressedSetPrefix ==
    (ReadsSuppressedLine /\ KeywordOf(last'.line, Top.currentPrefix) = <<"set-prefix">>) =>
        /\ stack'[Len(stack)].currentPrefix = ArgsOf(last'.line, Top.currentPrefix)
        /\ stack'[Len(stack)].skip
        /\ err' = ""

\* A prefixed `clear-prefix` read while suppressed clears it.
SuppressedClearPrefix ==
    (ReadsSuppressedLine /\ Top.currentPrefix # <<>>
        /\ last'.line = Top.currentPrefix \o <<":", "clear-prefix">>) =>
        /\ stack'[Len(stack)].currentPrefix = <<>>
        /\ stack'[Len(stack)].skip
        /\ err' = ""

\* `else` and `endif` leave the prefix as it is.
BranchEndKeepsPrefix ==
    (pc = "walk" /\ last'.via = "conditional") =>
        stack'[Len(stack)].currentPrefix = Top.currentPrefix

\* C30: a `set-prefix P` and a `P:clear-prefix` inside a suppressed branch
\* change the active prefix of the file as they do outside, and the prefix
\* they leave is the one that filters the lines after the `endif`.
C30_PrefixNotGatedBySuppression ==
    [][SuppressedSetPrefix /\ SuppressedClearPrefix /\ BranchEndKeepsPrefix]_vars

\* `if B=1` (false), `set-prefix p`, `p:endif`, `emit x`: the emit after
\* the endif is dropped by the prefix set in the branch that was not taken.
C30_Witness ==
    /\ pc = "walk"
    /\ err = ""
    /\ last.line = Ln("emit", <<"x">>)
    /\ last.via = "dropped"
    /\ ~last.skip
    /\ Top.ifStk = <<>>
    /\ Top.currentPrefix = P
    /\ itemsToConcat = <<>>
    /\ budget = MaxLinesSkip - 4

----------------------------------------------------------------------------
(* The depth of the conditional stack, checked under SpecStack: A is 1, B  *)
(* and N have no value, g is a file `include` opens.                       *)

MaxLinesStack == 4

StackLines ==
    { Ln("if", <<"A", "=", "1">>), Ln("if", <<"B", "=", "1">>), Ln("if", <<"N">>),
      <<"else">>, <<"endif">>, Ln("emit", <<"x">>), Ln("include", <<"g">>),
      <<"text-begin">>, Ln("set-prefix", <<"p">>),
      Pre(Ln("if", <<"A", "=", "1">>)), Pre(<<"else">>), Pre(<<"endif">>) }

InitStack == InitWith(<<>>, << <<"A", "=", "1">> >>, MaxLinesStack)

NextStack ==
    \/ \E l \in StackLines : ReadLine(l)
    \/ EndOfFile
    \/ SubstituteItem
    \/ SubstituteOutput
    \/ ChooseOutput
    \/ WriteItem
    \/ Finish

SpecStack == InitStack /\ [][NextStack]_vars

\* The step reads a line of the file being walked.
ReadsLine == pc = "walk" /\ budget' = budget - 1

\* The line the step reads is a directive that gets past the prefix guard:
\* read outside a text block, not blank, not a comment, and carrying the
\* active prefix if there is one.
PassesGuard ==
    /\ ReadsLine
    /\ ~Top.inTextBlock
    /\ last'.line # <<>>
    /\ ~HasPrefix(last'.line, <<"#">>)
    /\ Top.currentPrefix = <<>> \/ HasPrefix(last'.line, Top.currentPrefix \o <<":">>)

\* The step reads the directive `keyword`, which gets past the prefix guard.
ReadsDirective(keyword) ==
    PassesGuard /\ KeywordOf(last'.line, Top.currentPrefix) = keyword

\* By how much the step changes the depth of the conditional stack of the
\* file whose line it reads.
DepthChange == Len(stack'[Len(stack)].ifStk) - Len(Top.ifStk)

\* An `if`, `else` or `endif` that is handled without error changes the
\* depth by +1, 0, -1; one that fails (a condition without operator, an
\* `else` or `endif` met with an empty stack) aborts the run and leaves the
\* stack as it was, so that the depth never goes below zero; no other line
\* changes the depth.
DepthStep ==
    ReadsLine =>
        /\ DepthChange = IF pc' = "error" THEN 0
                         ELSE IF ReadsDirective(<<"if">>) THEN 1
                         ELSE IF ReadsDirective(<<"endif">>) THEN -1
                         ELSE 0
        /\ (ReadsDirective(<<"endif">>) /\ Top.ifStk = <<>>) => pc' = "error"
        /\ (ReadsDirective(<<"else">>) /\ Top.ifStk = <<>>) => pc' = "error"
        /\ (ReadsDirective(<<"else">>) /\ Top.ifStk # <<>>) => pc' = "walk"
        /\ (ReadsDirective(<<"endif">>) /\ Top.ifStk # <<>>) => pc' = "walk"

\* No file that is being walked is suppressed while its stack is empty.
UnsuppressedWhenEmpty ==
    \A i \in 1..Len(stack) : stack[i].ifStk = <<>> => ~stack[i].skip

\* C31: in every reachable state the suppression flag of a file is false
\* whenever its conditional stack is empty; an `if` raises the depth by
\* exactly one, an `else` leaves it unchanged, an `endif` lowers it by
\* exactly one, no other line changes it, and the depth is never negative
\* (an `endif` met with an empty stack aborts the run instead).
C31_StackDepth == []UnsuppressedWhenEmpty /\ [][DepthStep]_vars

\* A true `if`, its `else` and its `endif` were read: the `endif` emptied the
\* stack and ended the suppression of the else-body.
C31_Witness ==
    /\ pc = "walk"
    /\ last.command = <<"endif">>
    /\ last.skip
    /\ last.closed.cond
    /\ last.closed.elses = 1
    /\ Reader.ifStk = <<>>
    /\ ~Reader.skip

----------------------------------------------------------------------------
(* Several `else`s of one `if`, checked under SpecCond.                    *)

\* C32: for an `if C` reached unsuppressed and followed by any number of
\* `else`s before its `endif`, a directive is executed only in the if-body
\* when C is true and only in the first else-body when C is false: after a
\* second `else` of the same `if` no directive is executed.
C32_SecondElseStaysClosed ==
    (last.via \in Executed /\ Len(Reader.ifInfo) > 0 /\ ~InnermostIf.skipBefore)
       => IF InnermostIf.elses = 0 THEN InnermostIf.cond
          ELSE InnermostIf.elses = 1 /\ ~InnermostIf.cond

----------------------------------------------------------------------------
(* The prefix guard and the conditionals, checked under SpecStack.         *)

\* The step reads, outside a text block and while a prefix is active, an
\* `if`, `else` or `endif` line that does not begin with the prefix and a
\* colon.
ReadsUnprefixedConditional ==
    /\ ReadsLine
    /\ ~Top.inTextBlock
    /\ Top.currentPrefix # <<>>
    /\ ~HasPrefix(last'.line, Top.currentPrefix \o <<":">>)
    /\ SplitN2(last'.line, <<" ">>)[1] \in {<<"if">>, <<"else">>, <<"endif">>}

\* Such a line is dropped: no frame changes and the walk goes on.
UnprefixedConditionalStep ==
    ReadsUnprefixedConditional => (stack' = stack /\ pc' = "walk")

\* A file that ends with a frame on its conditional stack fails the run.
EndsOpen == (pc = "walk" /\ last'.via = "eof" /\ Top.ifStk # <<>>)
               => (pc' = "error" /\ err' = "unclosed if block(s)")

\* C33: while a prefix P is active, an `if`, `else` or `endif` line that
\* does not begin with `P:` is dropped and leaves the conditional stack and
\* the suppression flag unchanged; an `if` opened as `P:if ...` is therefore
\* still open after an unprefixed `endif`, and the file then ends with the
\* unclosed-conditional error.
C33_GuardBeforeConditionals == [][UnprefixedConditionalStep /\ EndsOpen]_vars

\* After `set-prefix p` and `p:if A=1`, an unprefixed `endif` was read and
\* the `if` is still open.
C33_Witness ==
    /\ pc = "walk"
    /\ last.line = <<"endif">>
    /\ last.prefix = P
    /\ Reader.currentPrefix = P
    /\ Reader.ifStk = <<TRUE>>
    /\ budget = MaxLinesStack - 3

----------------------------------------------------------------------------
(* A text block in a suppressed branch, checked under SpecText.            *)

\* The line read last was a `text-begin` that got past the prefix guard
\* while the file was suppressed, and the walk goes on in that file.
AfterSuppressedTextBegin ==
    /\ pc = "walk"
    /\ last.depth = Len(stack)
    /\ last.skip
    /\ ~last.inText
    /\ last.prefix = <<>> \/ HasPrefix(last.line, last.prefix \o <<":">>)
    /\ KeywordOf(last.line, last.prefix) = <<"text-begin">>

\* The step reads a line that is not the closing marker of a block.
ReadsBlockLine ==
    /\ ReadsLine
    /\ ~TrimsToEnd(last'.line)
    /\ ~TrimsToPrefixedEnd(last'.line)

\* C34: the line that follows a `text-begin` of a suppressed branch, unless
\* it is the `text-end`, appends no fragment and leaves the conditional
\* stack, the suppression flag and the active prefix of the file as they
\* were, whatever it holds: also when it begins with `if`, `else`, `endif`
\* or `set-prefix`.
C34_SuppressedBlockInert ==
    [][(AfterSuppressedTextBegin /\ ReadsBlockLine) =>
          /\ itemsToConcat' = itemsToConcat
          /\ stack'[Len(stack)].ifStk = Top.ifStk
          /\ stack'[Len(stack)].skip = Top.skip
          /\ stack'[Len(stack)].currentPrefix = Top.currentPrefix]_vars

----------------------------------------------------------------------------
(* A text block left open at the end of its file, checked under SpecText.  *)

\* The step reaches the end of a file whose text block is open and holds
\* lines.
EndsInBlock ==
    /\ pc = "walk"
    /\ last'.via = "eof"
    /\ Top.inTextBlock
    /\ Top.textBlock # <<>>

\* C35: when a file ends while a text block opened by `text-begin` is still
\* open, the accumulated lines are appended as a fragment or the run fails
\* with an error; they are never dropped by a walk that goes on.
C35_OpenBlockNotDiscarded ==
    [][EndsInBlock =>
          \/ pc' = "error"
          \/ /\ Len(itemsToConcat') = Len(itemsToConcat) + 1
             /\ itemsToConcat'[Len(itemsToConcat')].Value = Top.textBlock]_vars

----------------------------------------------------------------------------
(* The order in which substituteParams visits the store, checked under     *)
(* SpecSubst.                                                              *)

\* What substituteParams may return for s: one result per order in which
\* range yields the keys of the store.
SubstituteResults(s) ==
    { substituteParams(s, parameters, order) : order \in Orders(DOMAIN parameters) }

\* C36: the result of main's substitution of a fragment does not depend on
\* the order in which the keys of the store are visited, so that two runs
\* on the same files and parameters write the same bytes; also when a
\* stored value holds a placeholder itself.
C36_SubstituteDeterministic ==
    (pc = "subst" /\ subIdx <= Len(itemsToConcat))
       => Cardinality(SubstituteResults(itemsToConcat[subIdx].Value)) = 1

----------------------------------------------------------------------------
(* A fragment file that cannot be opened, checked under SpecAbort: the     *)
(* run is given --output c or no --output.                                 *)

MaxLinesAbort == 3

AbortLines ==
    { Ln("emit", <<"x">>), Ln("concat", <<"f">>), Ln("concat", <<"h">>),
      Ln("output", <<"o">>) }

InitAbort == \E flag \in { <<>>, <<"c">> } : InitRun(<<>>, <<>>, flag, MaxLinesAbort)

NextAbort ==
    \/ \E l \in AbortLines : ReadLine(l)
    \/ EndOfFile
    \/ SubstituteItem
    \/ SubstituteOutput
    \/ ChooseOutput
    \/ WriteItem
    \/ Finish

SpecAbort == InitAbort /\ [][NextAbort]_vars

\* runConcat failed to open the file of a `concat` fragment.
FailedToOpen == pc = "error" /\ err = "error opening file"

\* C38: when the file of a `concat` fragment cannot be opened the run
\* fails and the output file holds none of the fragments that precede it
\* in the list: it was not created or nothing was written to it.
C38_NoPartialOutput == FailedToOpen => (~created \/ written = <<>>)

----------------------------------------------------------------------------
(* Files that include each other, checked under SpecCycle: the top-level   *)
(* file main.dsl and the file g lie in the working directory; no line of   *)
(* the pool changes the store, opens a conditional or sets a prefix, so    *)
(* every call of a file begins in the same configuration and, the walk     *)
(* being deterministic, takes the same steps.                              *)

MaxLinesCycle == 4

CycleLines == { Ln("include", MainFile), Ln("include", <<"g">>), Ln("emit", <<"x">>) }

InitCycle == InitWith(<<>>, <<>>, MaxLinesCycle)

NextCycle ==
    \/ \E l \in CycleLines : ReadLine(l)
    \/ EndOfFile
    \/ SubstituteItem
    \/ SubstituteOutput
    \/ ChooseOutput
    \/ WriteItem
    \/ Finish

SpecCycle == InitCycle /\ [][NextCycle]_vars

\* A line is read by the innermost call only, and a call returns to its
\* caller only: the calls below the innermost one wait as they are.
DepthFirstStep ==
    pc = "walk" =>
        /\ Len(stack') \in {Len(stack) - 1, Len(stack), Len(stack) + 1}
        /\ \A i \in 1..(Len(stack) - 1) : stack'[i] = stack[i]
        /\ ReadsLine => last'.depth = Len(stack)

\* The walk is inside a call of a file from within a call of the same
\* file: the inner call takes the steps the outer one took and makes the
\* same `include` again, so neither call ever returns.
Recurs ==
    \E i, j \in 1..Len(stack) :
        i < j /\ FilepathAbs(stack[i].file) = FilepathAbs(stack[j].file)

\* C37: the traversal is depth-first (an `include` completes, with its
\* nested includes, before the includer reads its next line) and every walk
\* returns, also when a file includes itself directly or through other
\* files: no call is ever made from within a call of the same file that
\* began in the same configuration, from which the walk cannot return.
C37_TraversalTerminates == []~Recurs /\ [][DepthFirstStep]_vars

\* The depth-first part of C37 alone.
TraversalDepthFirst == [][DepthFirstStep]_vars

====
